---- MODULE Spec2Model ----
(***************************************************************************)
(* payload-puck: the homepage-uniqueness hook (plugin/hooks/               *)
(* isHomepageUnique.ts) and the Puck REST endpoint handlers, run against   *)
(* a model of the host document store; the editor's version history       *)
(* panel, the styles endpoint and the configuration context.               *)
(*                                                                         *)
(* Specifications:                                                         *)
(*   SpecSerial  writes of the local API, one after the other              *)
(*   SpecWrites  writes of the local API, hooks and commits interleaved    *)
(*   SpecCallers SpecWrites with callers that set the bypass flag          *)
(*   Spec        requests served by the seven endpoint handlers            *)
(*   SpecRuns    one handler run twice on one request, both runs failing   *)
(*   SpecPanel   the version history panel of the editor and its requests  *)
(*   SpecEditor  SpecPanel under a parent that changes the panel's props   *)
(*   SpecStyles  the styles endpoint, its cache and the CSS file           *)
(*   SpecConfig  components that read the Puck configuration context       *)
(*   SpecBuild   a Next.js build under withPuckCSS                         *)
(*   SpecDark    DarkModeStyles components and the document's style element *)
(*                                                                         *)
(* JavaScript objects are functions from field names to values; a field    *)
(* that is absent is not in the DOMAIN.  An optional value is <<>> when    *)
(* undefined and <<v>> when it is v.                                       *)
(***************************************************************************)
EXTENDS Integers, Sequences, FiniteSets, Bags, TLC

(* The field names of the model's records.  TLC keeps the fields of a record
   sorted in the order in which it first met their names, and sorts a record
   in place when it first compares or fingerprints it; a record that several
   workers hold is safe only when its constructor already lists the fields in
   that order.  Every record constructor below follows the order given here. *)
FieldOrder ==
  [purpose |-> 1, method |-> 2, endpoint |-> 3, apiEndpoint |-> 4,
   pageId |-> 5, disabled |-> 6, handler |-> 7, op |-> 8, collection |-> 9,
   id |-> 10, path |-> 11, _status |-> 12, title |-> 13, slug |-> 14,
   isHomepage |-> 15, versionId |-> 16, parent |-> 17, updatedAt |-> 18,
   autosave |-> 19, version |-> 20, isError |-> 21, name |-> 22,
   message |-> 23, status |-> 24, data |-> 25, isPublic |-> 26,
   existingHomepage |-> 27, stack |-> 28, body |-> 29, host |-> 30,
   context |-> 31, skipIsHomepageHook |-> 32, via |-> 33, outcome |-> 34,
   draft |-> 35, depth |-> 36, where |-> 37, equals |-> 38, sort |-> 39,
   limit |-> 40, response |-> 41, thrown |-> 42, value |-> 43,
   queries |-> 44, resp |-> 45, calls |-> 46, bodyRead |-> 47, docs |-> 48,
   totalDocs |-> 49, isOpen |-> 50, isLoading |-> 51, isRestoring |-> 52,
   versions |-> 53, hook |-> 54, error |-> 55, isAvailable |-> 56,
   doc |-> 57, published |-> 58, success |-> 59, xPuckCache |-> 60,
   css |-> 61, exists |-> 62, mtime |-> 63, content |-> 64, rawCss |-> 65,
   config |-> 66, layouts |-> 67, theme |-> 68, compiled |-> 69,
   skipInDev |-> 70, nodeEnv |-> 71, mounted |-> 72, forceEnabled |-> 73,
   state |-> 74, isDarkMode |-> 75, source |-> 76, shouldInject |-> 77,
   darkClass |-> 78, prefersDark |-> 79]

VARIABLES docs, versions, pending, hook, served, req, thrown, resp, calls, bodyRead, twin,
          props, panel, fetches, probed, answer, effects, origin,
          cssCache, cssFile, cssJobs, cssResp, cssSeen,
          providers, used,
          build, plugins, compiling, compilations, written,
          instances, colorScheme, styleElements

\* the history panel of the editor: its props and state, its requests in
\* flight, what its probe and its last resolved request were answered, and
\* the calls the last resolved handleRestore made outside of the panel's
\* state, and the page whose request wrote isAvailable and versions last
editorVars == <<props, panel, fetches, probed, answer, effects, origin>>

\* the styles endpoint: its cache, the CSS file, the compilations in progress
\* and the last response, and every pair of modification time and content
\* that the file has had
stylesVars == <<cssCache, cssFile, cssJobs, cssResp, cssSeen>>

\* a component that calls usePuckConfig: the providers above it and what the
\* call gave
configVars == <<providers, used>>

\* one build of the application: the options and environment of the build,
\* the plugin instances of its compilers, the compilations of the CSS in
\* progress, how many were started and how many wrote the output file
buildVars == <<build, plugins, compiling, compilations, written>>

\* the DarkModeStyles components of one document, what the document says of
\* dark mode and its style elements with id STYLE_ID
darkVars == <<instances, colorScheme, styleElements>>

clientVars == <<editorVars, stylesVars, configVars, buildVars, darkVars>>

vars == <<docs, versions, pending, hook, served, req, thrown, resp, calls, bodyRead, twin,
          clientVars>>

-----------------------------------------------------------------------------
(* Bounds *)

\* documents the collection can hold
MaxDocs == 2
\* writes of the local API that can be in flight at once
MaxInflight == 2
\* requests served by the endpoint handlers in one run
MaxRequests == 2

DocIds == 1..MaxDocs

-----------------------------------------------------------------------------
(* Objects and optional values *)

EmptyObj == <<>>
Undefined == <<>>
Some(v) == <<v>>
Has(o, f) == f \in DOMAIN o

\* { ...a, ...b }: the fields of b win
Spread(a, b) == b @@ a

\* const { f, ...rest } = o
Rest(o, f) == [k \in DOMAIN o \ {f} |-> o[k]]

\* o.f || dflt for a string field: undefined and '' are falsy
OrDefault(o, f, dflt) == IF Has(o, f) /\ o[f] # "" THEN o[f] ELSE dflt

-----------------------------------------------------------------------------
(* The host document store: one collection of page documents *)

PuckCollection == "pages"

\* a stored document as the host returns it
DocOf(db, id) == Spread([id |-> id], db[id])

\* the query with 'isHomepage exists' in place of 'isHomepage equals true'
FindHomepageFlagged(db, slug, excludeId) ==
  LET matches == {i \in DOMAIN db : /\ Has(db[i], "isHomepage")
                                    /\ (excludeId # Undefined => i # excludeId[1])}
  IN IF slug # PuckCollection \/ matches = {} THEN {<<>>}
     ELSE {<<DocOf(db, i)>> : i \in matches}

\* payload.find({ where: { and: [isHomepage equals true, id not_equals x] }, limit: 1 }):
\* the possible docs arrays; which match comes first is the host's choice
FindHomepage(db, slug, excludeId) ==
  LET matches == {i \in DOMAIN db : /\ Has(db[i], "isHomepage")
                                    /\ db[i].isHomepage = TRUE
                                    /\ (excludeId # Undefined => i # excludeId[1])}
  IN IF slug # PuckCollection \/ matches = {} THEN {<<>>}
     ELSE {<<DocOf(db, i)>> : i \in matches}

Homepages(db) == {i \in DOMAIN db : Has(db[i], "isHomepage") /\ db[i].isHomepage = TRUE}

-----------------------------------------------------------------------------
(* plugin/hooks/isHomepageUnique.ts *)

\* the message of the APIError built by the HomepageConflictError constructor
ConflictMessage(existingHomepage) ==
  "Another page is already set as homepage: \"" \o existingHomepage.title
     \o "\" (/" \o existingHomepage.slug \o ")"

HomepageConflictError(existingHomepage) ==
  [isError |-> TRUE,
   name |-> "HomepageConflictError",
   message |-> ConflictMessage(existingHomepage),
   status |-> 400,
   data |-> [existingHomepage |-> existingHomepage],
   isPublic |-> TRUE,
   existingHomepage |-> existingHomepage,
   stack |-> "at createIsHomepageUniqueHook"]

\* ExistingHomepageInfo with 'existing.title ?? ...': an empty title is kept
ExistingHomepageInfoNullish(existing) ==
  [id |-> ToString(existing.id),
   title |-> IF Has(existing, "title") THEN existing.title ELSE "Untitled",
   slug |-> IF Has(existing, "slug") THEN existing.slug ELSE ""]

\* the descriptor built from the matched document
ExistingHomepageInfo(existing) ==
  [id |-> ToString(existing.id),
   title |-> OrDefault(existing, "title", "Untitled"),
   slug |-> OrDefault(existing, "slug", "")]

\* options of createIsHomepageUniqueHook(): the default, as in the documented use
HookOptions == EmptyObj

HookCollectionSlug(options, collection) ==
  IF Has(options, "collectionSlug") /\ options.collectionSlug # ""
    THEN options.collectionSlug
    ELSE collection

\* context?.skipIsHomepageHook
SkipIsHomepageHook(context) ==
  Has(context, "skipIsHomepageHook") /\ context.skipIsHomepageHook = TRUE

\* the hook without its query: every write passes
IsHomepageUniqueHookNoQuery(data, originalDoc, context, collection, db) ==
  {[outcome |-> "return", value |-> data, queries |-> 0]}

\* the hook without the wasHomepage test: a re-save of the homepage is checked
\* like a newly set flag, against every homepage of the collection
IsHomepageUniqueHookNoWas(data, originalDoc, context, collection, db) ==
  IF SkipIsHomepageHook(context) \/ ~(Has(data, "isHomepage") /\ data.isHomepage = TRUE)
    THEN {[outcome |-> "return", value |-> data, queries |-> 0]}
    ELSE {IF Len(found) > 0
            THEN [outcome |-> "throw",
                  value |-> HomepageConflictError(ExistingHomepageInfo(found[1])),
                  queries |-> 1]
            ELSE [outcome |-> "return", value |-> data, queries |-> 1]
          : found \in FindHomepage(db, HookCollectionSlug(HookOptions, collection),
                                   IF originalDoc # Undefined
                                     THEN Some(originalDoc[1].id) ELSE Undefined)}

\* the hook with its query moved before the tests of the flags
IsHomepageUniqueHookEagerQuery(data, originalDoc, context, collection, db) ==
  IF SkipIsHomepageHook(context)
    THEN {[outcome |-> "return", value |-> data, queries |-> 0]}
    ELSE
      LET isSettingHomepage == Has(data, "isHomepage") /\ data.isHomepage = TRUE
          wasHomepage == /\ originalDoc # Undefined
                         /\ Has(originalDoc[1], "isHomepage")
                         /\ originalDoc[1].isHomepage = TRUE
      IN {IF isSettingHomepage /\ ~wasHomepage /\ Len(found) > 0
            THEN [outcome |-> "throw",
                  value |-> HomepageConflictError(ExistingHomepageInfo(found[1])),
                  queries |-> 1]
            ELSE [outcome |-> "return", value |-> data, queries |-> 1]
          : found \in FindHomepage(db, HookCollectionSlug(HookOptions, collection),
                                   IF originalDoc # Undefined
                                     THEN Some(originalDoc[1].id) ELSE Undefined)}

\* The beforeChange hook.  originalDoc is Undefined on create.  The result is
\* the set of possible outcomes: "return" with the returned data, or "throw"
\* with the error; queries counts the calls of req.payload.find.
IsHomepageUniqueHook(data, originalDoc, context, collection, db) ==
  IF SkipIsHomepageHook(context)
    THEN {[outcome |-> "return", value |-> data, queries |-> 0]}
    ELSE
      LET isSettingHomepage == Has(data, "isHomepage") /\ data.isHomepage = TRUE
          wasHomepage == /\ originalDoc # Undefined
                         /\ Has(originalDoc[1], "isHomepage")
                         /\ originalDoc[1].isHomepage = TRUE
          collectionSlug == HookCollectionSlug(HookOptions, collection)
          excludeId == IF originalDoc # Undefined /\ Has(originalDoc[1], "id")
                         THEN Some(originalDoc[1].id) ELSE Undefined
      IN IF ~isSettingHomepage \/ wasHomepage
           THEN {[outcome |-> "return", value |-> data, queries |-> 0]}
           ELSE {IF Len(found) > 0
                   THEN [outcome |-> "throw",
                         value |-> HomepageConflictError(ExistingHomepageInfo(found[1])),
                         queries |-> 1]
                   ELSE [outcome |-> "return", value |-> data, queries |-> 1]
                 : found \in FindHomepage(db, collectionSlug, excludeId)}

\* unsetHomepage without the context of its update
UnsetHomepageWriteNoContext(collectionSlug, pageId) ==
  [op |-> "update",
   collection |-> collectionSlug,
   id |-> pageId,
   data |-> [isHomepage |-> FALSE],
   context |-> EmptyObj,
   via |-> "unsetHomepage"]

\* unsetHomepage without the data of its update
UnsetHomepageWriteNoData(collectionSlug, pageId) ==
  [op |-> "update",
   collection |-> collectionSlug,
   id |-> pageId,
   data |-> EmptyObj,
   context |-> [skipIsHomepageHook |-> TRUE],
   via |-> "unsetHomepage"]

\* unsetHomepage with the flag set instead of cleared
UnsetHomepageWriteSetsFlag(collectionSlug, pageId) ==
  [op |-> "update",
   collection |-> collectionSlug,
   id |-> pageId,
   data |-> [isHomepage |-> TRUE],
   context |-> [skipIsHomepageHook |-> TRUE],
   via |-> "unsetHomepage"]

\* the update issued by unsetHomepage(payload, collectionSlug, pageId)
UnsetHomepageWrite(collectionSlug, pageId) ==
  [op |-> "update",
   collection |-> collectionSlug,
   id |-> pageId,
   data |-> [isHomepage |-> FALSE],
   context |-> [skipIsHomepageHook |-> TRUE],
   via |-> "unsetHomepage"]

-----------------------------------------------------------------------------
(* Writes through the host's local API: the hook runs, then the commit *)

\* data of the writes issued by the callers of the local API
WriteData ==
  { [isHomepage |-> TRUE],
    [isHomepage |-> FALSE],
    [title |-> "Home", slug |-> "home"],
    [title |-> "", isHomepage |-> TRUE] }

\* data of the writes that race with each other
RaceData ==
  { [isHomepage |-> TRUE],
    [isHomepage |-> FALSE],
    [title |-> "Home", isHomepage |-> TRUE] }

PendingCreates == BagCardinality(pending) -
                  Cardinality({w \in BagToSet(pending) : w.op # "create"})

\* the id the host gives to a new document
NewId(db) == CHOOSE i \in DocIds \ DOMAIN db : \A j \in DocIds \ DOMAIN db : i <= j

\* the record of one hook invocation
HookRecord(w, r) ==
  [op |-> w.op, id |-> w.id, data |-> w.data, context |-> w.context,
   via |-> w.via, outcome |-> r.outcome, value |-> r.value, queries |-> r.queries]

NoHook ==
  [op |-> "none", id |-> 0, data |-> EmptyObj, context |-> EmptyObj,
   via |-> "none", outcome |-> "none", value |-> EmptyObj, queries |-> 0]

LocalWrite(op, id, data) ==
  [op |-> op, collection |-> PuckCollection, id |-> id, data |-> data,
   context |-> EmptyObj, via |-> "local"]

\* the host runs the beforeChange hook of write w; the write that passes
\* waits for its commit with the data the hook returned
RunHook(w, originalDoc) ==
  \E r \in IsHomepageUniqueHook(w.data, originalDoc, w.context, w.collection, docs) :
    /\ hook' = HookRecord(w, r)
    /\ pending' = IF r.outcome = "return"
                    THEN pending (+) SetToBag({[w EXCEPT !.data = r.value]})
                    ELSE pending
    /\ UNCHANGED <<docs, versions, served, req, thrown, resp, calls, bodyRead, twin,
                   clientVars>>

\* payload.create({ collection, data })
LocalCreate(data) ==
  /\ BagCardinality(pending) < MaxInflight
  /\ Cardinality(DOMAIN docs) + PendingCreates < MaxDocs
  /\ RunHook(LocalWrite("create", 0, data), Undefined)

\* payload.update({ collection, id, data })
LocalUpdate(id, data) ==
  /\ BagCardinality(pending) < MaxInflight
  /\ id \in DOMAIN docs
  /\ RunHook(LocalWrite("update", id, data), Some(DocOf(docs, id)))

\* unsetHomepage(payload, collectionSlug, pageId)
UnsetHomepage(pageId) ==
  /\ BagCardinality(pending) < MaxInflight
  /\ pageId \in DOMAIN docs
  /\ RunHook(UnsetHomepageWrite(PuckCollection, pageId), Some(DocOf(docs, pageId)))

\* payload.update({ collection, id, data, context }) by a caller of the local
\* API that hands over a context of its own, as unsetHomepage does
LocalUpdateWithContext(id, data, context) ==
  /\ BagCardinality(pending) < MaxInflight
  /\ id \in DOMAIN docs
  /\ RunHook([LocalWrite("update", id, data) EXCEPT !.context = context],
             Some(DocOf(docs, id)))

\* the store after write w is committed
Committed(db, w) ==
  IF w.op = "create"
    THEN Spread(db, [i \in {NewId(db)} |-> w.data])
    ELSE [db EXCEPT ![w.id] = Spread(@, w.data)]

\* the host commits the pending write w; an update of a document that was
\* deleted in between fails and changes nothing
Commit(w) ==
  /\ BagIn(w, pending)
  /\ docs' = IF w.op = "create" \/ w.id \in DOMAIN docs THEN Committed(docs, w) ELSE docs
  /\ pending' = pending (-) SetToBag({w})
  /\ UNCHANGED <<versions, hook, served, req, thrown, resp, calls, bodyRead, twin,
                 clientVars>>

-----------------------------------------------------------------------------
(* The host operations called by the endpoint handlers.  hostFault is the
   unexpected exception the operation throws, if any.  Each result is a set
   of outcomes [thrown, value, docs, hook]: the exception the operation
   threw or the value it returned, the store and the hook record after it. *)

NotFound ==
  [isError |-> TRUE, name |-> "NotFound", message |-> "Not Found", status |-> 404,
   stack |-> "at findByID"]

InvalidData ==
  [isError |-> TRUE, name |-> "TypeError",
   message |-> "Cannot read properties of undefined", stack |-> "at createOperation"]

Returned(value, db, hk) == [thrown |-> Undefined, value |-> value, docs |-> db, hook |-> hk]
Raised(e, db, hk) == [thrown |-> Some(e), value |-> EmptyObj, docs |-> db, hook |-> hk]

\* the subsets of S with min(limit, |S|) elements
Limit(S, limit) ==
  {T \in SUBSET S : Cardinality(T) = IF Cardinality(S) < limit THEN Cardinality(S) ELSE limit}

\* payload.find({ collection, draft: true, depth: 0, limit })
PayloadFind(limit, hostFault, db, hk) ==
  IF hostFault # Undefined THEN {Raised(hostFault[1], db, hk)}
  ELSE {Returned([docs |-> T, totalDocs |-> Cardinality(DOMAIN db)], db, hk)
          : T \in Limit({DocOf(db, i) : i \in DOMAIN db}, limit)}

\* payload.findByID({ collection, id, draft: true, depth: 0 })
PayloadFindByID(id, hostFault, db, hk) ==
  IF hostFault # Undefined THEN {Raised(hostFault[1], db, hk)}
  ELSE IF id \notin DOMAIN db THEN {Raised(NotFound, db, hk)}
  ELSE {Returned(DocOf(db, id), db, hk)}

\* payload.create({ collection, data, draft: true }): hook, then commit
PayloadCreate(data, hostFault, db, hk) ==
  IF hostFault # Undefined THEN {Raised(hostFault[1], db, hk)}
  ELSE IF data = Undefined THEN {Raised(InvalidData, db, hk)}
  ELSE LET w == LocalWrite("create", 0, data[1])
       IN {IF r.outcome = "throw"
             THEN Raised(r.value, db, HookRecord(w, r))
             ELSE Returned(Spread([id |-> NewId(db)], r.value),
                           Committed(db, [w EXCEPT !.data = r.value]), HookRecord(w, r))
           : r \in IsHomepageUniqueHook(w.data, Undefined, w.context, w.collection, db)}

\* payload.update({ collection, id, data, draft }): hook, then commit
PayloadUpdate(id, data, hostFault, db, hk) ==
  IF hostFault # Undefined THEN {Raised(hostFault[1], db, hk)}
  ELSE IF id \notin DOMAIN db THEN {Raised(NotFound, db, hk)}
  ELSE LET w == LocalWrite("update", id, data)
       IN {IF r.outcome = "throw"
             THEN Raised(r.value, db, HookRecord(w, r))
             ELSE LET after == Committed(db, [w EXCEPT !.data = r.value])
                  IN Returned(DocOf(after, id), after, HookRecord(w, r))
           : r \in IsHomepageUniqueHook(w.data, Some(DocOf(db, id)), w.context,
                                        w.collection, db)}

\* payload.delete({ collection, id })
PayloadDelete(id, hostFault, db, hk) ==
  IF hostFault # Undefined THEN {Raised(hostFault[1], db, hk)}
  ELSE IF id \notin DOMAIN db THEN {Raised(NotFound, db, hk)}
  ELSE {Returned(DocOf(db, id), [i \in DOMAIN db \ {id} |-> db[i]], hk)}

\* the version records of vers in the order of sort '-updatedAt', cut at limit
NewestFirst(vers, limit) ==
  LET n == IF Cardinality(vers) < limit THEN Cardinality(vers) ELSE limit
  IN {s \in [1..n -> vers] :
        /\ \A a, b \in 1..n : a < b => s[a].updatedAt >= s[b].updatedAt /\ s[a] # s[b]
        /\ \A v \in vers : (\A a \in 1..n : s[a] # v)
                              => \A a \in 1..n : s[a].updatedAt >= v.updatedAt}

\* payload.findVersions({ collection, where: { parent: { equals: id } }, sort, limit })
PayloadFindVersions(id, limit, hostFault, db, vers, hk) ==
  IF hostFault # Undefined THEN {Raised(hostFault[1], db, hk)}
  ELSE {Returned([docs |-> s], db, hk)
          : s \in NewestFirst({v \in vers : v.parent = id}, limit)}

\* payload.restoreVersion({ collection, id: versionId }): the parent document
\* of the version is replaced by the snapshot
PayloadRestoreVersion(versionId, hostFault, db, vers, hk) ==
  IF hostFault # Undefined THEN {Raised(hostFault[1], db, hk)}
  ELSE LET found == {v \in vers : v.id = versionId}
       IN IF found = {} THEN {Raised(NotFound, db, hk)}
          ELSE {IF v.parent \notin DOMAIN db
                  THEN Raised(NotFound, db, hk)
                  ELSE Returned(Spread([id |-> v.parent], v.version),
                                [db EXCEPT ![v.parent] = v.version], hk)
                : v \in found}

-----------------------------------------------------------------------------
(* The endpoint handlers.  A request r has the route parameters collection
   (optional) and id, and the body that req.json() gives (optional).  fault
   names the exceptions of the run: fault.body is thrown by req.json(),
   fault.host by the host operation.  Each handler yields the set of possible
   outcomes [thrown, resp, calls, bodyRead, docs, hook]: the exception raised
   inside the try block, the response, the host operations called, whether
   the body was read, and the store and hook record afterwards.  A response
   with status 0 stands for an exception that escaped the handler. *)

\* PuckEndpointOptions.collections
Collections == {PuckCollection}

\* Response.json(body, { status })
Json(body, status) == [status |-> status, body |-> body]

\* a test that accepts every collection named in the route
IncludesAnyNamed(collections, collection) == collection # Undefined

\* collections.includes(collection)
Includes(collections, collection) ==
  collection # Undefined /\ collection[1] \in collections

\* the 400 response for a collection that is not configured
NotConfigured(collection) ==
  Json([error |-> "Collection '"
                    \o (IF collection = Undefined THEN "undefined" ELSE collection[1])
                    \o "' is not configured for Puck"], 400)

\* error instanceof Error ? error.message : fallback
ErrorMessageWithStack(error, fallback) ==
  IF error.isError THEN error.message \o "\n" \o error.stack ELSE fallback

ErrorMessage(error, fallback) ==
  IF error.isError THEN error.message ELSE fallback

\* catch (error) without the instanceof test: { error: error.message }, and
\* JSON drops the field of a thrown value that has no message
CatchNoInstanceof(o, fallback) ==
  IF o.thrown = Undefined THEN o
  ELSE [o EXCEPT !.resp = Json(IF o.thrown[1].isError
                                 THEN [error |-> o.thrown[1].message]
                                 ELSE EmptyObj, 500)]

\* catch (error) { return Response.json({ error: ... }, { status: 500 }) }
Catch(o, fallback) ==
  IF o.thrown = Undefined THEN o
  ELSE [o EXCEPT !.resp = Json([error |-> ErrorMessage(o.thrown[1], fallback)], 500)]

NoResp == [status |-> 0, body |-> EmptyObj]

\* the try block ended with a return
Done(response, hostCalls, read, db, hk) ==
  [thrown |-> Undefined, resp |-> response, calls |-> hostCalls, bodyRead |-> read,
   docs |-> db, hook |-> hk]

\* the try block ended with the host operation's outcome h: its exception, or
\* the response made of its value
AfterHost(h, response, hostCalls, read) ==
  [thrown |-> h.thrown, resp |-> IF h.thrown = Undefined THEN response ELSE NoResp,
   calls |-> hostCalls, bodyRead |-> read, docs |-> h.docs, hook |-> h.hook]

\* req.json() threw
BodyThrew(e, db, hk) ==
  [thrown |-> Some(e), resp |-> NoResp, calls |-> <<>>, bodyRead |-> TRUE,
   docs |-> db, hook |-> hk]

ListLimit == 100
VersionsLimit == 20

createListHandler(r, fault, db, vers, hk) ==
  LET collection == r.collection
      call == [op |-> "find", collection |-> collection[1], draft |-> TRUE,
               depth |-> 0, limit |-> ListLimit]
  IN {Catch(o, "List failed") : o \in
        IF ~Includes(Collections, collection)
          THEN {Done(NotConfigured(collection), <<>>, FALSE, db, hk)}
          ELSE {AfterHost(h, Json(h.value, 200), <<call>>, FALSE)
                  : h \in PayloadFind(ListLimit, fault.host, db, hk)}}

createCreateHandler(r, fault, db, vers, hk) ==
  LET collection == r.collection
      body == r.body
      call == [op |-> "create", collection |-> collection[1], data |-> body,
               draft |-> TRUE]
  IN {Catch(o, "Create failed") : o \in
        IF ~Includes(Collections, collection)
          THEN {Done(NotConfigured(collection), <<>>, FALSE, db, hk)}
        ELSE IF fault.body # Undefined
          THEN {BodyThrew(fault.body[1], db, hk)}
          ELSE {AfterHost(h, Json([doc |-> h.value], 200), <<call>>, TRUE)
                  : h \in PayloadCreate(body, fault.host, db, hk)}}

createGetHandler(r, fault, db, vers, hk) ==
  LET collection == r.collection
      id == r.id
      call == [op |-> "findByID", collection |-> collection[1], id |-> id,
               draft |-> TRUE, depth |-> 0]
  IN {Catch(o, "Get failed") : o \in
        IF ~Includes(Collections, collection)
          THEN {Done(NotConfigured(collection), <<>>, FALSE, db, hk)}
          ELSE {AfterHost(h, Json([doc |-> h.value], 200), <<call>>, FALSE)
                  : h \in PayloadFindByID(id, fault.host, db, hk)}}

\* _status === 'published'
ShouldPublishAlways(body) == TRUE

ShouldPublish(body) == Has(body, "_status") /\ body._status = "published"

createUpdateHandler(r, fault, db, vers, hk) ==
  LET collection == r.collection
      id == r.id
      body == IF r.body = Undefined THEN EmptyObj ELSE r.body[1]
      data == Rest(body, "_status")
      shouldPublish == ShouldPublish(body)
      call == [op |-> "update", collection |-> collection[1], id |-> id,
               data |-> Spread(data, [_status |-> IF shouldPublish THEN "published"
                                                                    ELSE "draft"]),
               draft |-> ~shouldPublish]
  IN {Catch(o, "Update failed") : o \in
        IF ~Includes(Collections, collection)
          THEN {Done(NotConfigured(collection), <<>>, FALSE, db, hk)}
        ELSE IF fault.body # Undefined
          THEN {BodyThrew(fault.body[1], db, hk)}
          ELSE {AfterHost(h, Json([doc |-> h.value, published |-> shouldPublish], 200),
                          <<call>>, TRUE)
                  : h \in PayloadUpdate(id, call.data, fault.host, db, hk)}}

createDeleteHandler(r, fault, db, vers, hk) ==
  LET collection == r.collection
      id == r.id
      call == [op |-> "delete", collection |-> collection[1], id |-> id]
  IN {Catch(o, "Delete failed") : o \in
        IF ~Includes(Collections, collection)
          THEN {Done(NotConfigured(collection), <<>>, FALSE, db, hk)}
          ELSE {AfterHost(h, Json([success |-> TRUE], 200), <<call>>, FALSE)
                  : h \in PayloadDelete(id, fault.host, db, hk)}}

createVersionsHandler(r, fault, db, vers, hk) ==
  LET collection == r.collection
      id == r.id
      call == [op |-> "findVersions", collection |-> collection[1],
               where |-> [parent |-> [equals |-> id]], sort |-> "-updatedAt",
               limit |-> VersionsLimit]
  IN {Catch(o, "Versions failed") : o \in
        IF ~Includes(Collections, collection)
          THEN {Done(NotConfigured(collection), <<>>, FALSE, db, hk)}
          ELSE {AfterHost(h, Json([versions |-> h.value.docs], 200), <<call>>, FALSE)
                  : h \in PayloadFindVersions(id, VersionsLimit, fault.host, db, vers, hk)}}

\* !versionId
MissingVersionIdNever(body) == FALSE

MissingVersionId(body) == ~Has(body, "versionId") \/ body.versionId = ""

createRestoreHandler(r, fault, db, vers, hk) ==
  LET collection == r.collection
      body == IF r.body = Undefined THEN EmptyObj ELSE r.body[1]
      call == [op |-> "restoreVersion", collection |-> collection[1],
               id |-> IF Has(body, "versionId") THEN body.versionId ELSE ""]
  IN {Catch(o, "Restore failed") : o \in
        IF ~Includes(Collections, collection)
          THEN {Done(NotConfigured(collection), <<>>, FALSE, db, hk)}
        ELSE IF fault.body # Undefined
          THEN {BodyThrew(fault.body[1], db, hk)}
        ELSE IF MissingVersionId(body)
          THEN {Done(Json([error |-> "Missing versionId in request body"], 400),
                     <<>>, TRUE, db, hk)}
          ELSE {AfterHost(h, Json([doc |-> h.value], 200), <<call>>, TRUE)
                  : h \in PayloadRestoreVersion(call.id, fault.host, db, vers, hk)}}

-----------------------------------------------------------------------------
(* Requests and faults *)

RouteCollections == {Undefined, Some(PuckCollection), Some("posts")}

\* bodies of POST and PATCH requests; Undefined: the request has no body
DocBodies ==
  { Undefined,
    Some([isHomepage |-> TRUE]),
    Some([_status |-> "published", title |-> "Home", isHomepage |-> TRUE]),
    Some([_status |-> "published", isHomepage |-> FALSE]),
    Some([_status |-> "draft", title |-> "Home"]),
    Some([_status |-> "archived"]) }

\* bodies of restore requests
RestoreBodies ==
  { Undefined,
    Some(EmptyObj),
    Some([versionId |-> ""]),
    Some([versionId |-> "v1"]),
    Some([versionId |-> "v3"]),
    Some([versionId |-> "v9"]) }

\* the bodies sent to collection c: all of them to the Puck collection
BodiesFor(c, bodies) ==
  IF c = Some(PuckCollection) THEN bodies
  ELSE {b \in bodies : b = Undefined \/ Has(b[1], "isHomepage") \/ Has(b[1], "versionId")}

\* what a host operation or req.json() throws: Errors, two of them with the
\* same message, and a value that is no Error
Exceptions ==
  { [isError |-> TRUE, name |-> "Error", message |-> "connection refused",
     stack |-> "at connect (db.js:10)"],
    [isError |-> TRUE, name |-> "Error", message |-> "connection refused",
     stack |-> "at query (db.js:42)"],
    [isError |-> TRUE, name |-> "SyntaxError", message |-> "Unexpected end of JSON input",
     stack |-> "at JSON.parse"],
    [isError |-> FALSE, value |-> "aborted"] }

NoFault == [body |-> Undefined, host |-> Undefined]

\* an Error and a value that is no Error
SomeExceptions == {e \in Exceptions : e.isError => e.name = "SyntaxError"}

HostFaults(exceptions) ==
  {NoFault} \cup {[body |-> Undefined, host |-> Some(e)] : e \in exceptions}

Faults(exceptions) ==
  HostFaults(exceptions) \cup {[body |-> Some(e), host |-> Undefined] : e \in exceptions}

Handlers == {"list", "create", "get", "update", "delete", "versions", "restore"}

Request(handler, collection, id, body) ==
  [handler |-> handler, collection |-> collection, id |-> id, body |-> body]

\* the outcomes of handler r.handler on request r
Handle(r, fault, db, vers, hk) ==
  CASE r.handler = "list"     -> createListHandler(r, fault, db, vers, hk)
    [] r.handler = "create"   -> createCreateHandler(r, fault, db, vers, hk)
    [] r.handler = "get"      -> createGetHandler(r, fault, db, vers, hk)
    [] r.handler = "update"   -> createUpdateHandler(r, fault, db, vers, hk)
    [] r.handler = "delete"   -> createDeleteHandler(r, fault, db, vers, hk)
    [] r.handler = "versions" -> createVersionsHandler(r, fault, db, vers, hk)
    [] r.handler = "restore"  -> createRestoreHandler(r, fault, db, vers, hk)

\* one request served from start to end; the host drops the versions of a
\* document that is deleted
Serve(r, fault) ==
  /\ served < MaxRequests
  /\ served' = served + 1
  /\ \E o \in Handle(r, fault, docs, versions, hook) :
    /\ req' = r
    /\ thrown' = o.thrown
    /\ resp' = o.resp
    /\ calls' = o.calls
    /\ bodyRead' = o.bodyRead
    /\ docs' = o.docs
    /\ hook' = o.hook
    /\ versions' = {v \in versions : v.parent \in DOMAIN o.docs}
    /\ UNCHANGED <<pending, twin, clientVars>>

ListRequest(collection, fault) ==
  Serve(Request("list", collection, 0, Undefined), fault)

CreateRequest(collection, body, fault) ==
  /\ Cardinality(DOMAIN docs) < MaxDocs
  /\ Serve(Request("create", collection, 0, body), fault)

GetRequest(collection, id, fault) ==
  Serve(Request("get", collection, id, Undefined), fault)

UpdateRequest(collection, id, body, fault) ==
  Serve(Request("update", collection, id, body), fault)

DeleteRequest(collection, id, fault) ==
  Serve(Request("delete", collection, id, Undefined), fault)

VersionsRequest(collection, id, fault) ==
  Serve(Request("versions", collection, id, Undefined), fault)

RestoreRequest(collection, id, body, fault) ==
  Serve(Request("restore", collection, id, body), fault)

\* the requests of the model
Requests ==
  {Request("list", c, 0, Undefined) : c \in RouteCollections}
    \cup {Request(h, c, id, Undefined)
            : h \in {"get", "delete", "versions"}, c \in RouteCollections, id \in DocIds}
    \cup UNION {{Request("create", c, 0, b) : b \in BodiesFor(c, DocBodies)}
                  : c \in RouteCollections}
    \cup UNION {{Request("update", c, id, b) : id \in DocIds, b \in BodiesFor(c, DocBodies)}
                  : c \in RouteCollections}
    \cup UNION {{Request("restore", c, id, b)
                   : id \in DocIds, b \in BodiesFor(c, RestoreBodies)}
                  : c \in RouteCollections}

\* the same handler run twice on the same request and the same store, each
\* run failing with an exception of its own; a failed run changes nothing
FailTwice(r, fault1, fault2) ==
  /\ served + 2 <= MaxRequests
  /\ served' = served + 2
  /\ r.handler = "create" => Cardinality(DOMAIN docs) < MaxDocs
  /\ \E o1 \in Handle(r, fault1, docs, versions, hook),
        o2 \in Handle(r, fault2, docs, versions, hook) :
       /\ o1.thrown # Undefined
       /\ o2.thrown # Undefined
       /\ req' = r
       /\ thrown' = o1.thrown
       /\ resp' = o1.resp
       /\ calls' = o1.calls
       /\ bodyRead' = o1.bodyRead
       /\ hook' = o1.hook
       /\ twin' = [thrown |-> o2.thrown, resp |-> o2.resp]
       /\ UNCHANGED <<docs, versions, pending, clientVars>>

-----------------------------------------------------------------------------
(* Initial states *)

Version(id, parent, updatedAt, autosave, snapshot) ==
  [id |-> id, parent |-> parent, updatedAt |-> updatedAt, autosave |-> autosave,
   version |-> snapshot]

HomeDoc == [title |-> "Home", slug |-> "home", isHomepage |-> TRUE]
AboutDoc == [title |-> "About", slug |-> "about", isHomepage |-> FALSE]

\* the version records of documents 1 and 2
VersionsOf1 ==
  { Version("v1", 1, 1, FALSE, [title |-> "Start", slug |-> "home", isHomepage |-> TRUE]),
    Version("v2", 1, 2, TRUE, HomeDoc) }
VersionsOf2 ==
  { Version("v3", 2, 3, FALSE, [title |-> "About us", slug |-> "about", isHomepage |-> FALSE]) }

\* collections with at most one homepage, with the version records the host
\* holds for their documents; the model adds no version records
InitialStores ==
  { [docs |-> EmptyObj, versions |-> {}],
    [docs |-> [i \in {1} |-> HomeDoc], versions |-> VersionsOf1],
    [docs |-> [i \in {1} |-> [isHomepage |-> TRUE]], versions |-> {}],
    [docs |-> [i \in {1} |-> AboutDoc], versions |-> {}],
    [docs |-> <<HomeDoc, AboutDoc>>, versions |-> VersionsOf1 \cup VersionsOf2] }

-----------------------------------------------------------------------------
(* The version history panel of the editor (VersionHistory).  The panel is a
   React component: what it shows is a function of its props and state, and
   a click acts on what is shown.  Its requests are answered by the endpoint
   handlers above when apiEndpoint is a route of the plugin, and by another
   server otherwise.  A request that is rejected (network failure) has the
   outcome Undefined, every other the outcome Some(response). *)

\* the plugin's routes for the collection PuckCollection
PuckEndpoint == "/api/puck/pages"
\* the REST routes of another server
OtherEndpoint == "/api/pages"

\* fetches of one panel that can be in flight at once
MaxFetches == 2

\* useState(...)
InitialPanel ==
  [isOpen |-> FALSE, isLoading |-> FALSE, isRestoring |-> FALSE, versions |-> <<>>,
   error |-> Undefined, isAvailable |-> Undefined]

\* fetch(`${apiEndpoint}/${pageId}/versions?limit=1`, { method: 'GET' })
CheckAvailabilityFetch(pr) ==
  [purpose |-> "probe", method |-> "GET", endpoint |-> pr.apiEndpoint, id |-> pr.pageId,
   path |-> "versions", body |-> Undefined, limit |-> Some(1)]

\* fetch(`${apiEndpoint}/${pageId}/versions?limit=20`)
FetchVersionsFetch(pr) ==
  [purpose |-> "list", method |-> "GET", endpoint |-> pr.apiEndpoint, id |-> pr.pageId,
   path |-> "versions", body |-> Undefined, limit |-> Some(VersionsLimit)]

\* fetch(`${apiEndpoint}/${pageId}/versions`, { method: 'POST', body: { versionId } })
HandleRestoreFetch(pr, version) ==
  [purpose |-> "restore", method |-> "POST", endpoint |-> pr.apiEndpoint, id |-> pr.pageId,
   path |-> "versions", body |-> Some([versionId |-> version.id]), limit |-> Undefined]

\* the handler of the plugin's route, "none" when the plugin has no such route
Route(method, path) ==
  CASE method = "GET" /\ path = "versions" -> "versions"
    [] method = "POST" /\ path = "restore" -> "restore"
    [] OTHER -> "none"

\* a response as fetch gives it: body is what response.json() parses, Undefined
\* when the body is not JSON
HttpResponse(status, body) == [status |-> status, body |-> body]

\* response.ok
Ok(response) == response.status \in 200..299

\* the version records another server lists for a document, newest first
OtherLists ==
  { <<>>,
    <<Version("v2", 1, 2, TRUE, HomeDoc),
      Version("v1", 1, 1, FALSE, [title |-> "Start", slug |-> "home", isHomepage |-> TRUE])>> }

\* the answers of another server to a request of the panel
OtherResponses(f) ==
  IF f.method = "GET"
    THEN {HttpResponse(200, Some([docs |-> l])) : l \in OtherLists}
           \cup {HttpResponse(200, Some(EmptyObj)), HttpResponse(200, Undefined),
                 HttpResponse(404, Some(EmptyObj)), HttpResponse(500, Some(EmptyObj))}
    ELSE {HttpResponse(200, Some(EmptyObj)), HttpResponse(500, Some(EmptyObj))}

\* The possible outcomes [response, docs, hook] of request f: how it is
\* answered and the store afterwards.  The host answers 404 for a request
\* that matches no route.
Answers(f, db, vers, hk) ==
  {[response |-> Undefined, docs |-> db, hook |-> hk]} \cup
  IF f.endpoint # PuckEndpoint
    THEN {[response |-> Some(r), docs |-> db, hook |-> hk] : r \in OtherResponses(f)}
  ELSE IF Route(f.method, f.path) = "none"
    THEN {[response |-> Some(HttpResponse(404, Some(EmptyObj))), docs |-> db, hook |-> hk]}
  ELSE UNION {{[response |-> Some(HttpResponse(o.resp.status, Some(o.resp.body))),
                docs |-> o.docs, hook |-> o.hook]
                 : o \in Handle(Request(Route(f.method, f.path), Some(PuckCollection),
                                        f.id, f.body),
                                fault, db, vers, hk)}
                : fault \in HostFaults(SomeExceptions)}

\* setIsAvailable(true) whatever the status of the probe
IsAvailableAlways(status) == TRUE

\* response.status !== 404
IsAvailableOn(status) == status # 404

\* if (isAvailable !== true) return null
Renders(p) == p.isAvailable = Some(TRUE)

\* what the panel shows
View(p) ==
  CASE ~Renders(p) -> "nothing"
    [] ~p.isOpen -> "button"
    [] p.isLoading -> "loading"
    [] p.error # Undefined -> "error"
    [] Len(p.versions) = 0 -> "empty"
    [] OTHER -> "list"

\* restore buttons that are never disabled
RestoreNeverDisabled(p) == FALSE

\* disabled={isRestoring}
RestoreDisabled(p) == p.isRestoring

\* checkAvailability after its fetch: setIsAvailable(...)
CheckAvailabilityDone(p, out) ==
  [p EXCEPT !.isAvailable = Some(IF out = Undefined THEN FALSE
                                  ELSE IsAvailableOn(out[1].status))]

\* fetchVersions up to its fetch
FetchVersionsStart(p) == [p EXCEPT !.isLoading = TRUE, !.error = Undefined]

\* fetchVersions after its fetch: the list of data.docs || [], or the
\* message of what was thrown; finally setIsLoading(false)
FetchVersionsDone(p, out) ==
  IF out = Undefined
    THEN [p EXCEPT !.isLoading = FALSE, !.error = Some("Failed to fetch")]
  ELSE IF ~Ok(out[1])
    THEN [p EXCEPT !.isLoading = FALSE, !.error = Some("Failed to fetch versions")]
  ELSE IF out[1].body = Undefined
    THEN [p EXCEPT !.isLoading = FALSE, !.error = Some("Unexpected end of JSON input")]
  ELSE [p EXCEPT !.isLoading = FALSE,
                 !.versions = IF Has(out[1].body[1], "docs") THEN out[1].body[1].docs
                              ELSE <<>>]

\* handleRestore after confirm(): setIsRestoring(true)
HandleRestoreStart(p) == [p EXCEPT !.isRestoring = TRUE]

\* handleRestore after a fetch that failed: setError(...), setIsRestoring(false)
HandleRestoreFailed(p, out) ==
  [p EXCEPT !.isRestoring = FALSE,
            !.error = Some(IF out = Undefined THEN "Failed to fetch"
                           ELSE "Failed to restore version")]

NoAnswer == [purpose |-> "none", response |-> Undefined]

\* the page a request, or the props, name: the pair of apiEndpoint and pageId
PageOf(f) == <<IF Has(f, "endpoint") THEN f.endpoint ELSE f.apiEndpoint,
               IF Has(f, "id") THEN f.id ELSE f.pageId>>

\* no request has written isAvailable or versions yet
NoOrigin == [versions |-> Undefined, isAvailable |-> Undefined]

\* the answer out of the versions request makes fetchVersions call setVersions
SetsVersions(out) == out # Undefined /\ Ok(out[1]) /\ out[1].body # Undefined

\* the panel is mounted: its state is initial and the probe is on its way
Mount(pr) ==
  /\ props = pr
  /\ panel = InitialPanel
  /\ fetches = SetToBag({CheckAvailabilityFetch(pr)})
  /\ probed = Undefined
  /\ answer = NoAnswer
  /\ effects = <<>>
  /\ origin = NoOrigin

\* request f of the panel is answered by a; the handler that served it has
\* acted on the store
Resolve(f, a) ==
  /\ BagIn(f, fetches)
  /\ answer' = [purpose |-> f.purpose, response |-> a.response]
  /\ docs' = a.docs
  /\ hook' = a.hook
  /\ UNCHANGED <<versions, pending, served, req, thrown, resp, calls, bodyRead, twin,
                 props, stylesVars, configVars, buildVars, darkVars>>

\* the probe of checkAvailability is answered
CheckAvailabilityResolves(f, a) ==
  /\ f.purpose = "probe"
  /\ Resolve(f, a)
  /\ panel' = CheckAvailabilityDone(panel, a.response)
  /\ probed' = Some(IF a.response = Undefined THEN 0 ELSE a.response[1].status)
  /\ fetches' = fetches (-) SetToBag({f})
  /\ origin' = [origin EXCEPT !.isAvailable = Some(PageOf(f))]
  /\ UNCHANGED effects

\* an effect that fetches the versions whether the panel is open or not
FetchesAlways(p) == TRUE

\* the effect on [isOpen, fetchVersions]: if (isOpen) fetchVersions()
FetchesWhenOpen(p) == p.isOpen

\* a click on the trigger button; the panel that opens fetches the versions
Toggle ==
  /\ Renders(panel)
  /\ ~props.disabled
  /\ LET toggled == [panel EXCEPT !.isOpen = ~panel.isOpen]
     IN IF FetchesWhenOpen(toggled)
          THEN /\ BagCardinality(fetches) < MaxFetches
               /\ panel' = FetchVersionsStart(toggled)
               /\ fetches' = fetches (+) SetToBag({FetchVersionsFetch(props)})
          ELSE /\ panel' = toggled
               /\ UNCHANGED fetches
  /\ UNCHANGED <<docs, versions, pending, hook, served, req, thrown, resp, calls, bodyRead,
                 twin, props, probed, answer, effects, origin, stylesVars, configVars, buildVars, darkVars>>

\* a click on the close button of the open panel, or outside of it
Close ==
  /\ Renders(panel)
  /\ panel.isOpen
  /\ panel' = [panel EXCEPT !.isOpen = FALSE]
  /\ UNCHANGED <<docs, versions, pending, hook, served, req, thrown, resp, calls, bodyRead,
                 twin, props, fetches, probed, answer, effects, origin, stylesVars,
                 configVars, buildVars, darkVars>>

\* the fetch of fetchVersions is answered
FetchVersionsResolves(f, a) ==
  /\ f.purpose = "list"
  /\ Resolve(f, a)
  /\ panel' = FetchVersionsDone(panel, a.response)
  /\ fetches' = fetches (-) SetToBag({f})
  /\ origin' = IF SetsVersions(a.response)
                 THEN [origin EXCEPT !.versions = Some(PageOf(f))]
                 ELSE origin
  /\ UNCHANGED <<probed, effects>>

\* a click on the restore button of entry index (the first entry has none),
\* and the user's answer to confirm()
ClickRestore(index, confirmed) ==
  /\ View(panel) = "list"
  /\ index \in 2..Len(panel.versions)
  /\ ~RestoreDisabled(panel)
  /\ confirmed
  /\ BagCardinality(fetches) < MaxFetches
  /\ panel' = HandleRestoreStart(panel)
  /\ fetches' = fetches (+) SetToBag({HandleRestoreFetch(props, panel.versions[index])})
  /\ UNCHANGED <<docs, versions, pending, hook, served, req, thrown, resp, calls, bodyRead,
                 twin, props, probed, answer, effects, origin, stylesVars, configVars, buildVars, darkVars>>

\* the outcomes of the onRestore callback of the props: it returns, or it
\* throws an Error with this message
OnRestoreOutcomes == {Undefined, Some("onRestore failed")}

\* handleRestore after an ok response whose onRestore callback threw
HandleRestoreCallbackThrew(p, message) ==
  [p EXCEPT !.isRestoring = FALSE, !.error = Some(message)]

\* onRestore?.(version); setIsOpen(false); window.location.reload()
RestoredEffects(versionId) ==
  <<<<"onRestore", versionId>>, <<"setIsOpen", "false">>, <<"reload", "">>>>

\* the fetch of handleRestore is answered; cb is the outcome of the onRestore
\* callback.  After an ok response and the callback the page is reloaded: the
\* panel is mounted anew and the requests of the old page are dropped.
HandleRestoreResolves(f, a, cb) ==
  /\ f.purpose = "restore"
  /\ cb \in OnRestoreOutcomes
  /\ Resolve(f, a)
  /\ IF a.response # Undefined /\ Ok(a.response[1])
       THEN IF cb = Undefined
              THEN /\ effects' = RestoredEffects(f.body[1].versionId)
                   /\ panel' = InitialPanel
                   /\ fetches' = SetToBag({CheckAvailabilityFetch(props)})
                   /\ probed' = Undefined
                   /\ origin' = NoOrigin
              ELSE /\ effects' = <<<<"onRestore", f.body[1].versionId>>>>
                   /\ panel' = HandleRestoreCallbackThrew(panel, cb[1])
                   /\ fetches' = fetches (-) SetToBag({f})
                   /\ UNCHANGED <<probed, origin>>
       ELSE /\ cb = Undefined
            /\ effects' = <<>>
            /\ panel' = HandleRestoreFailed(panel, a.response)
            /\ fetches' = fetches (-) SetToBag({f})
            /\ UNCHANGED <<probed, origin>>

\* the pages a parent shows the panel for: two pages of one server, and a
\* page of the plugin's endpoint
Pages == {<<OtherEndpoint, 1>>, <<OtherEndpoint, 2>>, <<PuckEndpoint, 1>>}

\* the props a parent hands to the panel
PanelProps ==
  {[apiEndpoint |-> pg[1], pageId |-> pg[2], disabled |-> d] : pg \in Pages, d \in BOOLEAN}

\* The parent renders the panel with other props.  State is kept.  When
\* apiEndpoint or pageId changed, the effect of checkAvailability runs again,
\* and so does the effect of fetchVersions, which fetches if the panel is open.
Rerender(pr) ==
  /\ pr \in PanelProps
  /\ pr # props
  /\ LET changed == PageOf(pr) # PageOf(props)
         refetch == changed /\ FetchesWhenOpen(panel)
         probe == IF changed THEN SetToBag({CheckAvailabilityFetch(pr)}) ELSE EmptyBag
         list == IF refetch THEN SetToBag({FetchVersionsFetch(pr)}) ELSE EmptyBag
     IN /\ BagCardinality(fetches (+) probe (+) list) <= MaxFetches
        /\ props' = pr
        /\ panel' = IF refetch THEN FetchVersionsStart(panel) ELSE panel
        /\ fetches' = fetches (+) probe (+) list
  /\ UNCHANGED <<docs, versions, pending, hook, served, req, thrown, resp, calls, bodyRead,
                 twin, probed, answer, effects, origin, stylesVars, configVars, buildVars, darkVars>>

NoProps == [apiEndpoint |-> "", pageId |-> 0, disabled |-> TRUE]

\* no panel is mounted
NoEditor ==
  /\ props = NoProps
  /\ panel = InitialPanel
  /\ fetches = EmptyBag
  /\ probed = Undefined
  /\ answer = NoAnswer
  /\ effects = <<>>
  /\ origin = NoOrigin

-----------------------------------------------------------------------------
(* The styles endpoint (createStylesHandler).  The handler checks, stats and
   reads the file and looks into the cache without a pause; it then awaits
   the compilation, during which other requests are served and the file can
   change. *)

\* cssFilePath, the argument of createStylesHandler
CssFilePath == "src/app/globals.css"

\* modification times of the file
MaxMtime == 2
\* compilations in progress at once
MaxJobs == 2

\* contents of the file
RawCss == {"a{}", "b{}"}

CssSyntaxError ==
  [isError |-> TRUE, name |-> "CssSyntaxError", message |-> "Unknown word",
   stack |-> "at processor.process"]

FsError ==
  [isError |-> TRUE, name |-> "Error", message |-> "EACCES: permission denied",
   stack |-> "at readFileSync"]

\* compileCss(css, filePath): the CSS as it is when no PostCSS or Tailwind is
\* installed, the processed CSS, or the error of the processor thrown again
CompileCss(css) ==
  { [thrown |-> Undefined, value |-> css],
    [thrown |-> Undefined, value |-> css \o " /* processed */"],
    [thrown |-> Some(CssSyntaxError), value |-> ""] }

\* new Response(body, { status, headers: { 'X-Puck-Cache': xPuckCache } })
CssResponse(status, body, xPuckCache) ==
  [status |-> status, body |-> body, xPuckCache |-> xPuckCache]

NoCssResponse == CssResponse(0, "", "none")

\* the 500 response of the catch block
StylesError(error) ==
  CssResponse(500, "/* Error compiling CSS: " \o ErrorMessage(error, "Unknown error")
                     \o " */", "none")

\* a cache test that takes any entry, whatever its modification time
CacheHitAnyMtime(cache, path, mtime) == path \in DOMAIN cache

\* cached && cached.mtime === mtime
CacheHit(cache, path, mtime) == path \in DOMAIN cache /\ cache[path].mtime = mtime

\* an entry stored with the modification time the file has when the
\* compilation ends
CacheSetFileMtime(cache, path, css, mtime) ==
  Spread(cache, [k \in {path} |-> [css |-> css, mtime |-> cssFile.mtime]])

\* cssCache.set(path, { css, mtime })
CacheSet(cache, path, css, mtime) ==
  Spread(cache, [k \in {path} |-> [css |-> css, mtime |-> mtime]])

\* The handler up to its await: fsFault is what statSync or readFileSync
\* throws, if anything.
StylesRequest(fsFault) ==
  /\ BagCardinality(cssJobs) < MaxJobs
  /\ IF ~cssFile.exists
       THEN /\ cssResp' = CssResponse(404, "/* CSS file not found: " \o CssFilePath \o " */",
                                      "none")
            /\ UNCHANGED cssJobs
     ELSE IF fsFault # Undefined
       THEN /\ cssResp' = StylesError(fsFault[1])
            /\ UNCHANGED cssJobs
     ELSE IF CacheHit(cssCache, CssFilePath, cssFile.mtime)
       THEN /\ cssResp' = CssResponse(200, cssCache[CssFilePath].css, "hit")
            /\ UNCHANGED cssJobs
       ELSE /\ cssJobs' = cssJobs (+) SetToBag({[mtime |-> cssFile.mtime,
                                                  rawCss |-> cssFile.content]})
            /\ UNCHANGED cssResp
  /\ UNCHANGED <<docs, versions, pending, hook, served, req, thrown, resp, calls, bodyRead,
                 twin, cssCache, cssFile, cssSeen, editorVars, configVars, buildVars, darkVars>>

\* The handler after its await: compilation job ends with outcome c
StylesCompiled(job, c) ==
  /\ BagIn(job, cssJobs)
  /\ c \in CompileCss(job.rawCss)
  /\ cssJobs' = cssJobs (-) SetToBag({job})
  /\ IF c.thrown # Undefined
       THEN /\ cssResp' = StylesError(c.thrown[1])
            /\ UNCHANGED cssCache
       ELSE /\ cssCache' = CacheSet(cssCache, CssFilePath, c.value, job.mtime)
            /\ cssResp' = CssResponse(200, c.value, "miss")
  /\ UNCHANGED <<docs, versions, pending, hook, served, req, thrown, resp, calls, bodyRead,
                 twin, cssFile, cssSeen, editorVars, configVars, buildVars, darkVars>>

\* the file is written with new content: its modification time moves on
WriteFile(content) ==
  /\ cssFile.mtime < MaxMtime
  /\ cssFile' = [exists |-> TRUE, mtime |-> cssFile.mtime + 1, content |-> content]
  /\ cssSeen' = cssSeen \cup {<<cssFile.mtime + 1, content>>}
  /\ UNCHANGED <<docs, versions, pending, hook, served, req, thrown, resp, calls, bodyRead,
                 twin, cssCache, cssJobs, cssResp, editorVars, configVars, buildVars, darkVars>>

\* the file is replaced by one that carries the same modification time
ReplaceFile(content) ==
  /\ cssFile.exists
  /\ cssFile.content # content
  /\ cssFile' = [cssFile EXCEPT !.content = content]
  /\ cssSeen' = cssSeen \cup {<<cssFile.mtime, content>>}
  /\ UNCHANGED <<docs, versions, pending, hook, served, req, thrown, resp, calls, bodyRead,
                 twin, cssCache, cssJobs, cssResp, editorVars, configVars, buildVars, darkVars>>

\* the file is removed
RemoveFile ==
  /\ cssFile.exists
  /\ cssFile' = [cssFile EXCEPT !.exists = FALSE]
  /\ UNCHANGED <<docs, versions, pending, hook, served, req, thrown, resp, calls, bodyRead,
                 twin, cssCache, cssJobs, cssResp, cssSeen, editorVars, configVars, buildVars, darkVars>>

NoFile == [exists |-> FALSE, mtime |-> 0, content |-> ""]

\* no styles endpoint
NoStyles ==
  /\ cssCache = EmptyObj
  /\ cssFile = NoFile
  /\ cssJobs = EmptyBag
  /\ cssResp = NoCssResponse
  /\ cssSeen = {}

-----------------------------------------------------------------------------
(* The configuration context of the editor (PuckConfigContext).  providers
   lists the values of the PuckConfigProvider elements above the component
   that calls usePuckConfig, the outermost first. *)

\* PuckConfigProvider elements nested above one component
MaxProviders == 2

\* createContext<PuckConfigContextValue>({ config: null })
DefaultContextValue == [config |-> Undefined]

\* value={{ config, layouts, theme }}
PuckConfigProvider(config, layouts, theme) ==
  [config |-> Some(config), layouts |-> layouts, theme |-> theme]

\* the values a provider can be given
ProviderValues ==
  {PuckConfigProvider(config, layouts, theme) :
     config \in {"marketing", "blog"},
     layouts \in {Undefined, Some("landing")},
     theme \in {Undefined, Some("dark")}}

\* useContext(context): the value of the nearest provider, the default value
\* of the context when there is none
UseContext(provs, defaultValue) ==
  IF Len(provs) = 0 THEN defaultValue ELSE provs[Len(provs)]

\* usePuckConfig(): what the call throws, or the value it returns
UsePuckConfig(provs) ==
  [thrown |-> Undefined, value |-> UseContext(provs, DefaultContextValue)]

NotUsed == [thrown |-> Undefined, value |-> EmptyObj]

\* a component under the providers is rendered and calls usePuckConfig
RenderConsumer ==
  /\ used = NotUsed
  /\ used' = UsePuckConfig(providers)
  /\ UNCHANGED <<docs, versions, pending, hook, served, req, thrown, resp, calls, bodyRead,
                 twin, providers, editorVars, stylesVars, buildVars, darkVars>>

\* no component of the editor
NoConfig ==
  /\ providers = <<>>
  /\ used = NotUsed

-----------------------------------------------------------------------------
(* The compilation of the editor CSS at build time (next/index.ts).  Next.js
   calls the webpack function of the configuration once for every compiler
   of a build, and a compiler fires beforeCompile at every compilation it
   starts.  build holds the options given to withPuckCSS and what the
   process finds: skipInDev, NODE_ENV and whether the input file exists. *)

\* compilers of one build: client, server and edge
MaxCompilers == 3

NodeEnvs == {"development", "production"}

\* new PuckCSSWebpackPlugin(resolvedOptions): private compiled = false
PuckCSSWebpackPlugin == [compiled |-> FALSE]

\* skipInDev && process.env.NODE_ENV === 'development'
SkipsInDev(b) == b.skipInDev /\ b.nodeEnv = "development"

\* the webpack function of the wrapped configuration, called for one more
\* compiler: a new plugin is pushed to the plugins of that compiler
InvokeWebpack ==
  /\ Len(plugins) < MaxCompilers
  /\ plugins' = Append(plugins, PuckCSSWebpackPlugin)
  /\ UNCHANGED <<docs, versions, pending, hook, served, req, thrown, resp, calls, bodyRead,
                 twin, build, compiling, compilations, written, editorVars, stylesVars,
                 configVars, darkVars>>

\* The beforeCompile tap of plugin i, up to its await: readFails says that
\* readFileSync throws.
BeforeCompile(i, readFails) ==
  /\ i \in DOMAIN plugins
  /\ IF plugins[i].compiled
       THEN UNCHANGED <<plugins, compiling, compilations>>
       ELSE /\ plugins' = [plugins EXCEPT ![i].compiled = TRUE]
            /\ IF SkipsInDev(build) \/ ~build.exists \/ readFails
                 THEN UNCHANGED <<compiling, compilations>>
                 ELSE /\ compiling' = compiling + 1
                      /\ compilations' = compilations + 1
  /\ UNCHANGED <<docs, versions, pending, hook, served, req, thrown, resp, calls, bodyRead,
                 twin, build, written, editorVars, stylesVars, configVars, darkVars>>

\* The tap after its await: compileCss returns and the output file is
\* written, or compileCss throws and the error is logged.
CompileCssEnds(throws) ==
  /\ compiling > 0
  /\ compiling' = compiling - 1
  /\ written' = IF throws THEN written ELSE written + 1
  /\ UNCHANGED <<docs, versions, pending, hook, served, req, thrown, resp, calls, bodyRead,
                 twin, build, plugins, compilations, editorVars, stylesVars, configVars,
                 darkVars>>

NoBuildOptions == [exists |-> FALSE, skipInDev |-> TRUE, nodeEnv |-> "production"]

\* no build
NoBuild ==
  /\ build = NoBuildOptions
  /\ plugins = <<>>
  /\ compiling = 0
  /\ compilations = 0
  /\ written = 0

-----------------------------------------------------------------------------
(* The DarkModeStyles components of one document (editor/components/
   DarkModeStyles.tsx) with the hook that detects dark mode (editor/hooks/
   useDarkMode.ts).  An instance holds the state of its useDarkMode and the
   shouldInject of its last render; colorScheme is what the document and the
   system say; styleElements counts the elements with id STYLE_ID. *)

\* DarkModeStyles components in one document
MaxInstances == 2

\* the forceEnabled prop
ForceEnabledValues == {Undefined, Some(TRUE), Some(FALSE)}

ColorSchemes == [darkClass : BOOLEAN, prefersDark : BOOLEAN]

\* useState({ isDarkMode: false, source: 'none' })
InitialDarkMode == [isDarkMode |-> FALSE, source |-> "none"]

\* computeState(): the .dark class first, the media query second
ComputeState(scheme) ==
  IF scheme.darkClass THEN [isDarkMode |-> TRUE, source |-> "class"]
  ELSE IF scheme.prefersDark THEN [isDarkMode |-> TRUE, source |-> "media-query"]
  ELSE InitialDarkMode

\* forceEnabled ?? isDarkMode
ShouldInject(forceEnabled, isDarkMode) ==
  IF forceEnabled # Undefined THEN forceEnabled[1] ELSE isDarkMode

\* The body of the effect, on a document with n elements of id STYLE_ID:
\* getElementById gives the first of them, if any.
InjectEffect(shouldInject, n) ==
  IF shouldInject
    THEN (IF n = 0 THEN 1 ELSE n)
    ELSE (IF n > 0 THEN n - 1 ELSE n)

\* the cleanup of the effect
InjectCleanup(n) == IF n > 0 THEN n - 1 ELSE n

NoInstance ==
  [mounted |-> FALSE, forceEnabled |-> Undefined, state |-> InitialDarkMode,
   shouldInject |-> FALSE]

\* Instance i mounts: it renders with the initial state of useDarkMode and
\* its effect runs.
MountDarkModeStyles(i, forceEnabled) ==
  /\ ~instances[i].mounted
  /\ LET shouldInject == ShouldInject(forceEnabled, InitialDarkMode.isDarkMode)
     IN /\ instances' = [instances EXCEPT ![i] =
                           [mounted |-> TRUE, forceEnabled |-> forceEnabled,
                            state |-> InitialDarkMode, shouldInject |-> shouldInject]]
        /\ styleElements' = InjectEffect(shouldInject, styleElements)
  /\ UNCHANGED <<docs, versions, pending, hook, served, req, thrown, resp, calls, bodyRead,
                 twin, colorScheme, editorVars, stylesVars, configVars, buildVars>>

\* setState(computeState()) of instance i, from the effect of useDarkMode,
\* its MutationObserver or its media query listener: the instance renders
\* again, and when shouldInject has changed the cleanup of the last effect
\* runs and then the effect.
SetDarkModeState(i) ==
  /\ instances[i].mounted
  /\ instances[i].state # ComputeState(colorScheme)
  /\ LET state == ComputeState(colorScheme)
         shouldInject == ShouldInject(instances[i].forceEnabled, state.isDarkMode)
     IN /\ instances' = [instances EXCEPT ![i].state = state,
                                          ![i].shouldInject = shouldInject]
        /\ styleElements' = IF shouldInject # instances[i].shouldInject
                              THEN InjectEffect(shouldInject, InjectCleanup(styleElements))
                              ELSE styleElements
  /\ UNCHANGED <<docs, versions, pending, hook, served, req, thrown, resp, calls, bodyRead,
                 twin, colorScheme, editorVars, stylesVars, configVars, buildVars>>

\* the class of the document element or the preference of the system changes
ChangeColorScheme(scheme) ==
  /\ scheme # colorScheme
  /\ colorScheme' = scheme
  /\ UNCHANGED <<docs, versions, pending, hook, served, req, thrown, resp, calls, bodyRead,
                 twin, instances, styleElements, editorVars, stylesVars, configVars,
                 buildVars>>

\* Instance i unmounts: the cleanup of its effect runs.
UnmountDarkModeStyles(i) ==
  /\ instances[i].mounted
  /\ instances' = [instances EXCEPT ![i] = NoInstance]
  /\ styleElements' = InjectCleanup(styleElements)
  /\ UNCHANGED <<docs, versions, pending, hook, served, req, thrown, resp, calls, bodyRead,
                 twin, colorScheme, editorVars, stylesVars, configVars, buildVars>>

LightScheme == [darkClass |-> FALSE, prefersDark |-> FALSE]

\* no DarkModeStyles component
NoDark ==
  /\ instances = [i \in 1..MaxInstances |-> NoInstance]
  /\ colorScheme = LightScheme
  /\ styleElements = 0

-----------------------------------------------------------------------------
(* Specifications *)

NoReq == Request("none", Undefined, 0, Undefined)
NoTwin == [thrown |-> Undefined, resp |-> NoResp]

\* the server before any write or request
ServerInit ==
  /\ \E st \in InitialStores : docs = st.docs /\ versions = st.versions
  /\ pending = EmptyBag
  /\ hook = NoHook
  /\ served = 0
  /\ req = NoReq
  /\ thrown = Undefined
  /\ resp = NoResp
  /\ calls = <<>>
  /\ bodyRead = FALSE
  /\ twin = NoTwin

Init == ServerInit /\ NoEditor /\ NoStyles /\ NoConfig /\ NoBuild /\ NoDark

AllIdle == pending = EmptyBag

\* writes one after the other: a write starts only when no other is in flight
NextSerial ==
  \/ \E data \in WriteData : AllIdle /\ LocalCreate(data)
  \/ \E id \in DocIds, data \in WriteData : AllIdle /\ LocalUpdate(id, data)
  \/ \E id \in DocIds : AllIdle /\ UnsetHomepage(id)
  \/ \E w \in BagToSet(pending) : Commit(w)

SpecSerial == Init /\ [][NextSerial]_vars

\* writes in any interleaving of their hooks and commits
NextWrites ==
  \/ \E data \in RaceData : LocalCreate(data)
  \/ \E id \in DocIds, data \in RaceData : LocalUpdate(id, data)
  \/ \E id \in DocIds : UnsetHomepage(id)
  \/ \E w \in BagToSet(pending) : Commit(w)

SpecWrites == Init /\ [][NextWrites]_vars

\* the interleaved writes, with callers that set the bypass flag themselves
NextCallers ==
  \/ \E data \in RaceData : LocalCreate(data)
  \/ \E id \in DocIds, data \in RaceData : LocalUpdate(id, data)
  \/ \E id \in DocIds, data \in RaceData :
       LocalUpdateWithContext(id, data, [skipIsHomepageHook |-> TRUE])
  \/ \E id \in DocIds : UnsetHomepage(id)
  \/ \E w \in BagToSet(pending) : Commit(w)

SpecCallers == Init /\ [][NextCallers]_vars

\* requests served one at a time
Next ==
  \/ \E c \in RouteCollections, f \in HostFaults(SomeExceptions) : ListRequest(c, f)
  \/ \E c \in RouteCollections, f \in Faults(SomeExceptions) :
       \E b \in BodiesFor(c, DocBodies) : CreateRequest(c, b, f)
  \/ \E c \in RouteCollections, id \in DocIds, f \in HostFaults(SomeExceptions) :
       GetRequest(c, id, f)
  \/ \E c \in RouteCollections, id \in DocIds, f \in Faults(SomeExceptions) :
       \E b \in BodiesFor(c, DocBodies) : UpdateRequest(c, id, b, f)
  \/ \E c \in RouteCollections, id \in DocIds, f \in HostFaults(SomeExceptions) :
       DeleteRequest(c, id, f)
  \/ \E c \in RouteCollections, id \in DocIds, f \in HostFaults(SomeExceptions) :
       VersionsRequest(c, id, f)
  \/ \E c \in RouteCollections, id \in DocIds, f \in Faults(SomeExceptions) :
       \E b \in BodiesFor(c, RestoreBodies) : RestoreRequest(c, id, b, f)

Spec == Init /\ [][Next]_vars

\* pairs of failing runs
NextRuns ==
  \E r \in Requests, f1 \in Faults(Exceptions), f2 \in Faults(Exceptions) :
    FailTwice(r, f1, f2)

SpecRuns == Init /\ [][NextRuns]_vars

\* the history panel of one page with its server
InitPanel ==
  /\ ServerInit
  /\ \E e \in {PuckEndpoint, OtherEndpoint}, id \in DocIds, d \in BOOLEAN :
       Mount([apiEndpoint |-> e, pageId |-> id, disabled |-> d])
  /\ NoStyles
  /\ NoConfig
  /\ NoBuild
  /\ NoDark

NextPanel ==
  \/ \E f \in BagToSet(fetches) :
       \E a \in Answers(f, docs, versions, hook) : CheckAvailabilityResolves(f, a)
  \/ Toggle
  \/ Close
  \/ \E f \in BagToSet(fetches) :
       \E a \in Answers(f, docs, versions, hook) : FetchVersionsResolves(f, a)
  \/ \E index \in DOMAIN panel.versions, confirmed \in BOOLEAN : ClickRestore(index, confirmed)
  \/ \E f \in BagToSet(fetches) :
       \E a \in Answers(f, docs, versions, hook), cb \in OnRestoreOutcomes :
         HandleRestoreResolves(f, a, cb)

SpecPanel == InitPanel /\ [][NextPanel]_vars

\* the history panel under a parent that changes its props
NextEditor ==
  \/ NextPanel
  \/ \E pr \in PanelProps : Rerender(pr)

\* the panel of one of two pages that both exist
InitEditor ==
  /\ ServerInit
  /\ docs = <<HomeDoc, AboutDoc>>
  /\ \E pr \in PanelProps : Mount(pr)
  /\ NoStyles
  /\ NoConfig
  /\ NoBuild
  /\ NoDark

SpecEditor == InitEditor /\ [][NextEditor]_vars

\* the styles endpoint and the file it serves
InitStyles ==
  /\ ServerInit
  /\ NoEditor
  /\ NoConfig
  /\ cssCache = EmptyObj
  /\ cssFile \in {NoFile} \cup {[exists |-> TRUE, mtime |-> 1, content |-> c] : c \in RawCss}
  /\ cssJobs = EmptyBag
  /\ cssResp = NoCssResponse
  /\ cssSeen = IF cssFile.exists THEN {<<cssFile.mtime, cssFile.content>>} ELSE {}
  /\ NoBuild
  /\ NoDark

NextStyles ==
  \/ \E fsFault \in {Undefined, Some(FsError)} : StylesRequest(fsFault)
  \/ \E job \in BagToSet(cssJobs) : \E c \in CompileCss(job.rawCss) : StylesCompiled(job, c)
  \/ \E content \in RawCss : WriteFile(content)
  \/ \E content \in RawCss : ReplaceFile(content)
  \/ RemoveFile

SpecStyles == InitStyles /\ [][NextStyles]_vars

\* a component under zero or more providers
InitConfig ==
  /\ ServerInit
  /\ NoEditor
  /\ NoStyles
  /\ providers \in UNION {[1..n -> ProviderValues] : n \in 0..MaxProviders}
  /\ used = NotUsed
  /\ NoBuild
  /\ NoDark

NextConfig == RenderConsumer

SpecConfig == InitConfig /\ [][NextConfig]_vars

\* one build, with the options and the environment it runs in
InitBuild ==
  /\ ServerInit
  /\ NoEditor
  /\ NoStyles
  /\ NoConfig
  /\ NoDark
  /\ build \in [exists : BOOLEAN, skipInDev : BOOLEAN, nodeEnv : NodeEnvs]
  /\ plugins = <<>>
  /\ compiling = 0
  /\ compilations = 0
  /\ written = 0

NextBuild ==
  \/ InvokeWebpack
  \/ \E i \in DOMAIN plugins, readFails \in BOOLEAN : BeforeCompile(i, readFails)
  \/ \E throws \in BOOLEAN : CompileCssEnds(throws)

SpecBuild == InitBuild /\ [][NextBuild]_vars

\* a document in which DarkModeStyles components mount and unmount
InitDark ==
  /\ ServerInit
  /\ NoEditor
  /\ NoStyles
  /\ NoConfig
  /\ NoBuild
  /\ instances = [i \in 1..MaxInstances |-> NoInstance]
  /\ colorScheme \in ColorSchemes
  /\ styleElements = 0

NextDark ==
  \/ \E i \in 1..MaxInstances, forceEnabled \in ForceEnabledValues :
       MountDarkModeStyles(i, forceEnabled)
  \/ \E i \in 1..MaxInstances : SetDarkModeState(i)
  \/ \E scheme \in ColorSchemes : ChangeColorScheme(scheme)
  \/ \E i \in 1..MaxInstances : UnmountDarkModeStyles(i)

SpecDark == InitDark /\ [][NextDark]_vars

-----------------------------------------------------------------------------
(* Properties of the homepage hook *)

IsTrue(o, f) == Has(o, f) /\ o[f] = TRUE

(* C1: with writes run one after the other, at most one document of the
   collection has isHomepage = true in every committed state *)
HomepageInvariant == Cardinality(Homepages(docs)) <= 1

\* a second document was written while the homepage stayed the only one
HomepageInvariantWitness ==
  /\ Cardinality(DOMAIN docs) = 2
  /\ Cardinality(Homepages(docs)) = 1
  /\ hook.outcome = "throw"

\* the hook record h is that of a write without the bypass flag that sets
\* isHomepage = true on a document whose prior isHomepage in db is not true
SetsNewHomepage(h, db) ==
  /\ h.op \in {"create", "update"}
  /\ ~IsTrue(h.context, "skipIsHomepageHook")
  /\ IsTrue(h.data, "isHomepage")
  /\ h.op = "update" => (h.id \in DOMAIN db /\ ~IsTrue(db[h.id], "isHomepage"))

\* the descriptor the conflict has to carry for document A of collection db
DescriptorOf(db, A) ==
  [id |-> ToString(A),
   title |-> IF Has(db[A], "title") /\ db[A].title # "" THEN db[A].title ELSE "Untitled",
   slug |-> IF Has(db[A], "slug") THEN db[A].slug ELSE ""]

\* a step in which the host ran the hook of a write of the local API
IsHookStep ==
  /\ BagCardinality(pending') >= BagCardinality(pending)
  /\ hook' # hook \/ pending' # pending

(* C2: if A is the homepage and a write without the bypass flag sets
   isHomepage = true on another document B whose prior isHomepage is not
   true, the hook throws a HomepageConflictError whose existingHomepage is
   A's id as a string, A's title or "Untitled", A's slug or "", and the
   write of B is not committed *)
ConflictNamesExisting ==
  [][\A A \in DOMAIN docs :
       (IsHookStep /\ SetsNewHomepage(hook', docs) /\ A # hook'.id
          /\ IsTrue(docs[A], "isHomepage"))
         => /\ hook'.outcome = "throw"
            /\ hook'.value.name = "HomepageConflictError"
            /\ hook'.value.existingHomepage = DescriptorOf(docs, A)
            /\ hook'.value.data = [existingHomepage |-> DescriptorOf(docs, A)]
            /\ pending' = pending
            /\ docs' = docs]_vars

\* a conflict naming a homepage whose title is empty: it is reported as "Untitled"
ConflictNamesExistingWitness ==
  /\ SetsNewHomepage(hook, docs)
  /\ hook.outcome = "throw"
  /\ \E A \in DOMAIN docs :
       /\ A # hook.id
       /\ IsTrue(docs[A], "isHomepage")
       /\ Has(docs[A], "title")
       /\ docs[A].title = ""
  /\ hook.value.existingHomepage.title = "Untitled"
  /\ hook.value.existingHomepage.slug = ""

\* the hook record h is that of an update of a homepage of db that carries
\* isHomepage = true again
ResavesHomepage(h, db) ==
  /\ h.op = "update"
  /\ h.id \in DOMAIN db
  /\ IsTrue(db[h.id], "isHomepage")
  /\ IsTrue(h.data, "isHomepage")

(* C3: an update of a document that is already the homepage, carrying
   isHomepage = true again, never raises a conflict: the hook returns the
   proposed data and the write proceeds, whatever the other documents hold *)
ResaveNeverConflicts ==
  [][(IsHookStep /\ ResavesHomepage(hook', docs))
       => /\ hook'.outcome = "return"
          /\ hook'.value = hook'.data
          /\ \E w \in BagToSet(pending') :
               /\ pending' = pending (+) SetToBag({w})
               /\ w.op = "update"
               /\ w.id = hook'.id
               /\ w.data = hook'.data]_vars

\* the homepage was saved again while another document was a homepage too
ResaveNeverConflictsWitness ==
  /\ ResavesHomepage(hook, docs)
  /\ hook.outcome = "return"
  /\ \E w \in BagToSet(pending) : w.id = hook.id /\ w.data = hook.data
  /\ \E A \in DOMAIN docs : A # hook.id /\ IsTrue(docs[A], "isHomepage")

\* a step in which the host committed the pending write w
IsCommitStep(w) == BagIn(w, pending) /\ pending' = pending (-) SetToBag({w})

(* C4: unsetHomepage issues one update of the page with data
   isHomepage = false and context skipIsHomepageHook = true; the hook
   returns the data without a query and without a conflict, and once the
   update is committed the page's isHomepage is false, whatever the flags
   of the other documents *)
UnsetHomepageBypasses ==
  [][/\ (IsHookStep /\ hook'.via = "unsetHomepage")
          => /\ hook'.op = "update"
             /\ hook'.data = [isHomepage |-> FALSE]
             /\ hook'.context = [skipIsHomepageHook |-> TRUE]
             /\ hook'.queries = 0
             /\ hook'.outcome = "return"
             /\ hook'.value = hook'.data
             /\ \E w \in BagToSet(pending') :
                  /\ pending' = pending (+) SetToBag({w})
                  /\ w.op = "update"
                  /\ w.id = hook'.id
                  /\ w.data = [isHomepage |-> FALSE]
     /\ \A w \in BagToSet(pending) :
          (IsCommitStep(w) /\ w.via = "unsetHomepage" /\ w.id \in DOMAIN docs)
            => /\ w.id \in DOMAIN docs'
               /\ Has(docs'[w.id], "isHomepage")
               /\ docs'[w.id].isHomepage = FALSE]_vars

\* unsetHomepage ran and was committed while another document is a homepage
UnsetHomepageBypassesWitness ==
  /\ hook.via = "unsetHomepage"
  /\ hook.outcome = "return"
  /\ pending = EmptyBag
  /\ hook.id \in DOMAIN docs
  /\ Has(docs[hook.id], "isHomepage")
  /\ docs[hook.id].isHomepage = FALSE
  /\ Homepages(docs) # {}

-----------------------------------------------------------------------------
(* Properties of the endpoint handlers *)

\* the last request was served by handler h for a collection of the allow-list
Served(h) ==
  /\ req.handler = h
  /\ req.collection # Undefined
  /\ req.collection[1] \in Collections

IsHomepageConflict(t) ==
  t # Undefined /\ t[1].isError /\ t[1].name = "HomepageConflictError"

(* C5: when a PATCH served by the update handler sets isHomepage = true on
   a page while another page is the homepage, the response is a 400-class
   error and carries the existingHomepage descriptor of that homepage *)
UpdateConflictIsClientError ==
  (Served("update") /\ IsHomepageConflict(thrown))
    => /\ resp.status \in 400..499
       /\ \/ /\ Has(resp.body, "existingHomepage")
             /\ resp.body.existingHomepage = thrown[1].existingHomepage
          \/ /\ Has(resp.body, "data")
             /\ resp.body.data = [existingHomepage |-> thrown[1].existingHomepage]

\* a step in which a request was served
IsServeStep == served' = served + 1

(* C6: a request whose :collection parameter is missing or not in the
   allow-list gets status 400 with body {error: ...} from each of the seven
   handlers, without a call of a host operation, without reading the body,
   and with the store unchanged *)
NotAllowedRejected ==
  [][(IsServeStep /\ req'.handler \in Handlers
        /\ (req'.collection = Undefined \/ req'.collection[1] \notin Collections))
       => /\ resp'.status = 400
          /\ DOMAIN resp'.body = {"error"}
          /\ resp'.body.error \in STRING
          /\ calls' = <<>>
          /\ bodyRead' = FALSE
          /\ thrown' = Undefined
          /\ hook' = hook
          /\ docs' = docs
          /\ versions' = versions]_vars

\* a restore request with a versionId for a collection that is not configured
NotAllowedRejectedWitness ==
  /\ req.handler = "restore"
  /\ req.collection = Some("posts")
  /\ req.body = Some([versionId |-> "v1"])
  /\ resp.status = 400
  /\ calls = <<>>

\* the body of the last request as the update handler sees it: body || {}
BodyOrEmpty == IF req.body = Undefined THEN EmptyObj ELSE req.body[1]

Published == Has(BodyOrEmpty, "_status") /\ BodyOrEmpty["_status"] = "published"

(* C7: the update handler calls the host update with draft = false and
   data._status = 'published' and answers published = true when
   body._status is 'published'; for every other body it calls it with
   draft = true and data._status = 'draft' and answers published = false;
   the other fields of the body reach the host unchanged *)
PublishOnlyWhenPublished ==
  Served("update")
    => /\ bodyRead
       /\ calls = <<>> => thrown # Undefined
       /\ calls # <<>>
            => /\ Len(calls) = 1
               /\ calls[1].op = "update"
               /\ calls[1].id = req.id
               /\ calls[1].draft = ~Published
               /\ DOMAIN calls[1].data = (DOMAIN BodyOrEmpty) \cup {"_status"}
               /\ calls[1].data["_status"] = IF Published THEN "published" ELSE "draft"
               /\ \A f \in DOMAIN BodyOrEmpty \ {"_status"} :
                    calls[1].data[f] = BodyOrEmpty[f]
       /\ resp.status = 200
            => /\ resp.body.published = Published
               /\ calls # <<>>

\* a PATCH with a status that is neither 'published' nor 'draft' was saved as a draft
PublishOnlyWhenPublishedWitness ==
  /\ Served("update")
  /\ req.body = Some([_status |-> "archived"])
  /\ resp.status = 200
  /\ resp.body.published = FALSE
  /\ calls[1].draft = TRUE
  /\ docs[req.id]["_status"] = "draft"

\* the body of the last request has no versionId
NoVersionId == ~Has(BodyOrEmpty, "versionId") \/ BodyOrEmpty.versionId = ""

(* C8: a restore request on an allow-listed collection whose body has no
   versionId (absent, empty, or no body) gets status 400, the host
   restoreVersion is not called and no document is changed *)
MissingVersionIdRejected ==
  [][(IsServeStep /\ Served("restore")' /\ NoVersionId')
       => /\ calls' = <<>>
          /\ docs' = docs
          /\ versions' = versions
          /\ thrown' = Undefined
               => /\ resp'.status = 400
                  /\ resp'.body = [error |-> "Missing versionId in request body"]
          /\ resp'.status \in {400, 500}]_vars

\* a restore request with an empty versionId was rejected
MissingVersionIdRejectedWitness ==
  /\ Served("restore")
  /\ req.body = Some([versionId |-> ""])
  /\ bodyRead
  /\ resp.status = 400
  /\ calls = <<>>

(* C9: an exception thrown by a host operation or by reading the request
   body does not escape the handler: the response has status 500 and a body
   of the shape {error: <string>} *)
ExceptionsBecome500 ==
  thrown # Undefined
    => /\ req.handler \in Handlers
       /\ resp.status = 500
       /\ DOMAIN resp.body = {"error"}
       /\ resp.body.error \in STRING

\* the host threw a value that is no Error and the handler answered 500
ExceptionsBecome500Witness ==
  /\ thrown # Undefined
  /\ ~thrown[1].isError
  /\ calls # <<>>
  /\ resp.status = 500
  /\ resp.body = [error |-> "Restore failed"]

\* both runs of the pair failed with one of the unexpected exceptions
BothFailed ==
  /\ thrown # Undefined
  /\ twin.thrown # Undefined
  /\ thrown[1] \in Exceptions
  /\ twin.thrown[1] \in Exceptions

\* C10 as stated: the body of the 500 response does not depend on the exception
GenericMessage == BothFailed => resp.body = twin.resp.body

\* what the response shows of exception e
Shown(e) == IF e.isError THEN <<"message", e.message>> ELSE <<"no Error">>

(* C10, amended: the 500 response is {error: m} with m the message of the
   exception when it is an Error and a text fixed by the handler otherwise;
   two runs of a handler on the same request that fail with exceptions of
   the same message, or both with values that are no Errors, get the same
   response, whatever else of the exceptions differs *)
MessageOnly ==
  BothFailed
    => /\ resp.status = 500
       /\ twin.resp.status = 500
       /\ thrown[1].isError => resp.body = [error |-> thrown[1].message]
       /\ Shown(thrown[1]) = Shown(twin.thrown[1]) => resp = twin.resp
       /\ Shown(thrown[1]) # Shown(twin.thrown[1]) => resp.body # twin.resp.body

\* two Errors with the same message and different stacks got the same response
MessageOnlyWitness ==
  /\ BothFailed
  /\ thrown[1].isError
  /\ twin.thrown[1].isError
  /\ thrown[1].stack # twin.thrown[1].stack
  /\ thrown[1].message = twin.thrown[1].message
  /\ resp = twin.resp
  /\ resp.status = 500

-----------------------------------------------------------------------------
(* The history panel *)

\* this step is the answer to a request of fetchVersions
ListAnswered ==
  /\ answer'.purpose = "list"
  /\ \E f \in BagToSet(fetches) :
       f.purpose = "list" /\ CopiesIn(f, fetches') = CopiesIn(f, fetches) - 1

\* the version records of the panel's document, as the host holds them
VersionsOfPage == {v \in versions : v.parent = props.pageId}

(* C11 as stated: when the versions request of the open panel is served by
   the list-versions handler, the list the panel shows is the min(n, 20)
   most recently updated version records of its document, newest first *)
HistoryListsNewest ==
  [][(/\ ListAnswered
      /\ props.apiEndpoint = PuckEndpoint
      /\ answer'.response # Undefined
      /\ answer'.response[1].status = 200
      /\ View(panel') \in {"list", "empty"})
       => panel'.versions \in NewestFirst(VersionsOfPage, VersionsLimit)]_vars

(* C12 as stated: the request of a confirmed restore is a POST to the
   restore route <apiEndpoint>/<pageId>/restore with body {versionId} *)
RestorePostsToRestoreRoute ==
  \A f \in BagToSet(fetches) :
    f.purpose = "restore"
      => /\ f.method = "POST"
         /\ f.path = "restore"
         /\ f.body # Undefined
         /\ DOMAIN f.body[1] = {"versionId"}

\* the restore requests in flight
RestoresInFlight ==
  LET R == {f \in BagToSet(fetches) : f.purpose = "restore"}
  IN IF R = {} THEN 0 ELSE BagCardinality([f \in R |-> CopiesIn(f, fetches)])

(* C13: at most one restore request of a panel is in flight; isRestoring is
   true, and every restore button disabled, exactly while one is in flight *)
OneRestoreAtATime ==
  /\ RestoresInFlight <= 1
  /\ panel.isRestoring <=> RestoresInFlight = 1
  /\ RestoreDisabled(panel) <=> RestoresInFlight = 1

\* a restore is in flight while the panel shows its list
OneRestoreAtATimeWitness ==
  /\ RestoresInFlight = 1
  /\ panel.isRestoring
  /\ View(panel) = "list"
  /\ BagCardinality(fetches) < MaxFetches

(* C14: the panel renders nothing while its probe is pending, after a 404
   and after a network failure of the probe; it renders its trigger button
   exactly when the probe was answered with a status other than 404 *)
ProbeGatesPanel ==
  /\ probed = Undefined => View(panel) = "nothing"
  /\ probed # Undefined /\ probed[1] \in {0, 404} => View(panel) = "nothing"
  /\ View(panel) # "nothing" <=> (probed # Undefined /\ probed[1] \notin {0, 404})

\* the probe got a 404 and the panel renders nothing
ProbeGatesPanelWitness ==
  /\ probed = Some(404)
  /\ View(panel) = "nothing"
  /\ panel.isAvailable = Some(FALSE)

\* answer a is an ok response that lists no version record
ZeroListed(a) ==
  /\ a.response # Undefined
  /\ Ok(a.response[1])
  /\ a.response[1].body # Undefined
  /\ LET data == a.response[1].body[1]
     IN /\ Has(data, "docs") => Len(data.docs) = 0
        /\ Has(data, "versions") => Len(data.versions) = 0

(* C15 as stated: when the versions request of the open panel is answered
   successfully with zero version records, the panel shows the empty state
   and error is null *)
EmptyStateOnZero ==
  [][(ListAnswered /\ ZeroListed(answer') /\ panel'.isOpen)
       => View(panel') = "empty" /\ panel'.error = Undefined]_vars

-----------------------------------------------------------------------------
(* The styles endpoint *)

\* this step is a request for the file, up to the await of the handler
IsStylesRequest == \E fsFault \in {Undefined, Some(FsError)} : StylesRequest(fsFault)

\* this step is the end of compilation job
IsStylesCompiled(job) == \E c \in CompileCss(job.rawCss) : StylesCompiled(job, c)

\* the cache holds an entry for the file with the file's modification time
FreshEntry ==
  /\ CssFilePath \in DOMAIN cssCache
  /\ cssCache[CssFilePath].mtime = cssFile.mtime

\* the answer from the cache: the stored stylesheet, nothing compiled
AnsweredFromCache ==
  /\ cssResp' = CssResponse(200, cssCache[CssFilePath].css, "hit")
  /\ cssJobs' = cssJobs
  /\ cssCache' = cssCache

\* the compilation of the file as it is now has started
CompilationStarted ==
  cssJobs' = cssJobs (+) SetToBag({[mtime |-> cssFile.mtime, rawCss |-> cssFile.content]})

\* the compiled file is stored with the modification time the request saw
\* and served as a miss
StoredAndServed(job) ==
  /\ CssFilePath \in DOMAIN cssCache'
  /\ cssCache'[CssFilePath].mtime = job.mtime
  /\ cssCache'[CssFilePath].css \in {c.value : c \in CompileCss(job.rawCss)}
  /\ cssResp' = CssResponse(200, cssCache'[CssFilePath].css, "miss")

\* the 500 response, the cache left as it was
FailedWithoutCaching ==
  /\ cssResp'.status = 500
  /\ cssResp'.xPuckCache = "none"
  /\ cssCache' = cssCache

(* C16 as stated: a request for an existing file is answered from the cache
   if and only if the cache holds an entry with the file's current
   modification time; in every other case the file is read and compiled,
   the entry replaced by {compiled css, current mtime} and the response
   marked as a miss *)
CacheHitOrRecompile ==
  [][/\ (IsStylesRequest /\ cssFile.exists)
          => IF FreshEntry THEN AnsweredFromCache
             ELSE CompilationStarted /\ cssCache' = cssCache
      /\ \A job \in BagToSet(cssJobs) : IsStylesCompiled(job) => StoredAndServed(job)]_vars

(* C16, amended: unless reading the file's status, reading the file or
   compiling it throws, a request for an existing file is answered from the
   cache (stored stylesheet, nothing compiled, X-Puck-Cache: hit) if and
   only if the cache holds an entry with the modification time the file has
   when the request arrives, and in every other case the file is read and
   compiled, the entry replaced by {compiled css, that modification time}
   and the response marked X-Puck-Cache: miss.  When one of the three
   throws, the response is the 500 of the handler, without the header, and
   the cache is left as it was *)
CacheHitOrRecompileOrFail ==
  [][/\ (IsStylesRequest /\ cssFile.exists)
          => \/ FreshEntry /\ AnsweredFromCache
             \/ ~FreshEntry /\ CompilationStarted /\ cssCache' = cssCache /\ cssResp' = cssResp
             \/ FailedWithoutCaching /\ cssJobs' = cssJobs
      /\ \A job \in BagToSet(cssJobs) :
           IsStylesCompiled(job) => StoredAndServed(job) \/ FailedWithoutCaching]_vars

\* a hit: the file was compiled and stored before, and has not changed since
CacheHitOrRecompileOrFailWitness ==
  /\ cssResp.xPuckCache = "hit"
  /\ cssFile.exists
  /\ FreshEntry
  /\ cssResp.body = cssCache[CssFilePath].css

-----------------------------------------------------------------------------
(* The styles endpoint under modifications of the file *)

\* this step ends a request for the file with a response
StylesResponds ==
  \/ IsStylesRequest /\ cssJobs' = cssJobs
  \/ \E job \in BagToSet(cssJobs) : IsStylesCompiled(job)

\* this step answers a request from the cache
StylesHit == IsStylesRequest /\ cssJobs' = cssJobs /\ cssResp'.xPuckCache = "hit"

\* the stylesheets that compileCss can make of content
CompiledFrom(content) == {c.value : c \in {o \in CompileCss(content) : o.thrown = Undefined}}

\* a 404 or a 500 leaves the cache as it was
FailureKeepsCache ==
  (StylesResponds /\ cssResp'.status \in {404, 500}) => cssCache' = cssCache

(* C28 as stated: a response marked X-Puck-Cache: hit never returns CSS
   compiled from content older than the content the file has at its current
   modification time, so it is compiled from the content the file has when
   the request arrives; a 500 or a 404 leaves the cache entry unchanged *)
HitServesCurrentContent ==
  [][/\ StylesHit => cssResp'.body \in CompiledFrom(cssFile.content)
     /\ FailureKeepsCache]_vars

(* C28, amended: a response marked X-Puck-Cache: hit returns CSS compiled
   from content that the file had at some moment at which its modification
   time was the one it has when the request arrives: never from the content
   of an earlier modification time, but from earlier content when a
   modification has kept the modification time; a 500 or a 404 leaves the
   cache entry unchanged *)
HitServesContentOfMtime ==
  [][/\ StylesHit
          => \E content \in RawCss :
               /\ <<cssFile.mtime, content>> \in cssSeen
               /\ cssResp'.body \in CompiledFrom(content)
     /\ FailureKeepsCache]_vars

\* a hit for the file after its modification, while the compilation that a
\* request started before the modification is still in progress
HitServesContentOfMtimeWitness ==
  /\ cssResp.xPuckCache = "hit"
  /\ cssFile.exists
  /\ cssFile.mtime > 1
  /\ FreshEntry
  /\ cssResp.body = cssCache[CssFilePath].css
  /\ \E job \in BagToSet(cssJobs) : job.mtime < cssFile.mtime

-----------------------------------------------------------------------------
(* The configuration context *)

(* C17 as stated: usePuckConfig throws when no PuckConfigProvider is above
   the component that calls it *)
UsePuckConfigThrowsOutside ==
  (used # NotUsed /\ Len(providers) = 0) => used.thrown # Undefined

-----------------------------------------------------------------------------
(* The swap of homepages, and the hook's reads *)

\* the hook record h is that of an update through the local API, without
\* the bypass flag, that sets isHomepage = true on document B
SetsHomepageOn(h, B) ==
  /\ h.op = "update"
  /\ h.via = "local"
  /\ h.id = B
  /\ ~IsTrue(h.context, "skipIsHomepageHook")
  /\ IsTrue(h.data, "isHomepage")

\* the write of hook record h waits for its commit with the proposed data
Proceeds(h) ==
  \E w \in BagToSet(pending') :
    /\ pending' = pending (+) SetToBag({w})
    /\ w.op = h.op
    /\ w.id = h.id
    /\ w.data = h.data

(* C18: with writes run one after the other and A the only homepage,
   unsetHomepage(A) is committed and leaves no homepage; the update that
   then sets isHomepage = true on B passes the hook without a conflict
   and, once committed, leaves B the only homepage.  In the opposite order
   the update of B is the first step: it throws the conflict that names A,
   and neither the store nor the pending writes change *)
HomepageSwap ==
  [][/\ \A w \in BagToSet(pending) :
          (IsCommitStep(w) /\ w.via = "unsetHomepage" /\ Homepages(docs) = {w.id})
            => Homepages(docs') = {} /\ hook' = hook
     /\ \A B \in DOMAIN docs :
          (/\ IsHookStep
           /\ hook.via = "unsetHomepage"
           /\ hook.outcome = "return"
           /\ pending = EmptyBag
           /\ Homepages(docs) = {}
           /\ B # hook.id
           /\ SetsHomepageOn(hook', B))
            => /\ hook'.outcome = "return"
               /\ Proceeds(hook')
               /\ docs' = docs
     /\ \A w \in BagToSet(pending) :
          (IsCommitStep(w) /\ SetsHomepageOn(hook, w.id) /\ w.via = "local"
             /\ Homepages(docs) = {})
            => Homepages(docs') = {w.id}
     /\ \A A, B \in DOMAIN docs :
          (/\ IsHookStep
           /\ pending = EmptyBag
           /\ Homepages(docs) = {A}
           /\ B # A
           /\ SetsHomepageOn(hook', B))
            => /\ hook'.outcome = "throw"
               /\ hook'.value.name = "HomepageConflictError"
               /\ hook'.value.existingHomepage = DescriptorOf(docs, A)
               /\ pending' = pending
               /\ docs' = docs]_vars

\* the end of a swap: the update of B went through and B is the only
\* homepage, the page that carried the flag at the start has it set to false
HomepageSwapWitness ==
  /\ pending = EmptyBag
  /\ \E B \in DOMAIN docs :
       /\ SetsHomepageOn(hook, B)
       /\ hook.outcome = "return"
       /\ hook.queries = 1
       /\ Homepages(docs) = {B}
       /\ \E A \in DOMAIN docs \ {B} :
            /\ Has(docs[A], "isHomepage")
            /\ docs[A].isHomepage = FALSE
            /\ Has(docs[A], "title")
            /\ docs[A].title = "Home"

\* the hook of record h does not have to look for another homepage
NeedsNoQuery(h, db) ==
  \/ IsTrue(h.context, "skipIsHomepageHook")
  \/ ~IsTrue(h.data, "isHomepage")
  \/ h.op = "update" /\ h.id \in DOMAIN db /\ IsTrue(db[h.id], "isHomepage")

(* C19: an invocation of the hook leaves the documents and the versions as
   they are; it makes at most one query, and none when the bypass flag is
   set, when the incoming isHomepage is not true or when the prior document
   was the homepage already; when it does not throw the conflict it returns
   the proposed data as they are, and the write proceeds with them *)
HookNeverWrites ==
  [][IsHookStep
       => /\ docs' = docs
          /\ versions' = versions
          /\ hook'.queries \in {0, 1}
          /\ NeedsNoQuery(hook', docs) => hook'.queries = 0
          /\ hook'.outcome \in {"return", "throw"}
          /\ hook'.outcome = "throw" => hook'.value.name = "HomepageConflictError"
          /\ hook'.outcome = "return"
               => hook'.value = hook'.data /\ Proceeds(hook')]_vars

\* an update that set the flag was checked with one query and passed,
\* while another write was waiting for its commit
HookNeverWritesWitness ==
  /\ hook.op = "update"
  /\ hook.queries = 1
  /\ hook.outcome = "return"
  /\ hook.value = hook.data
  /\ IsTrue(hook.data, "isHomepage")
  /\ BagCardinality(pending) = 2

\* the documents of db, other than the one written by h, that are homepages
OtherHomepages(h, db) ==
  {i \in Homepages(db) : h.op = "update" => i # h.id}

(* C20: the hook throws only for a write that sets isHomepage = true while
   a document other than the written one has isHomepage = true in the
   collection at that moment; a write that sets the flag when no other
   document has it (a create without a homepage, an update of D when D is
   the only homepage or there is none) passes with its data *)
NoFalseConflict ==
  [][IsHookStep
       => /\ hook'.outcome = "throw"
               => /\ IsTrue(hook'.data, "isHomepage")
                  /\ OtherHomepages(hook', docs) # {}
                  /\ \E E \in OtherHomepages(hook', docs) :
                       hook'.value.existingHomepage.id = ToString(E)
          /\ (IsTrue(hook'.data, "isHomepage") /\ OtherHomepages(hook', docs) = {})
               => hook'.outcome = "return" /\ Proceeds(hook')]_vars

\* a create that sets the flag passed while documents without the flag set
\* to true exist and no homepage does
NoFalseConflictWitness ==
  /\ hook.op = "create"
  /\ IsTrue(hook.data, "isHomepage")
  /\ hook.outcome = "return"
  /\ hook.queries = 1
  /\ Homepages(docs) = {}
  /\ \E i \in DOMAIN docs : Has(docs[i], "isHomepage")

-----------------------------------------------------------------------------
(* Writes whose hooks and commits interleave *)

(* C21 as stated: when two writes that set isHomepage = true on different
   documents are processed concurrently, the query of each running before
   the commit of the other, no commit takes the collection from at most one
   homepage to two *)
InterleavedHomepageInvariant ==
  [][\A w \in BagToSet(pending) :
       (IsCommitStep(w) /\ Cardinality(Homepages(docs)) <= 1)
         => Cardinality(Homepages(docs')) <= 1]_vars

\* write w carries the bypass flag
Bypassed(w) == IsTrue(w.context, "skipIsHomepageHook")

(* C22 as stated: every write that skips the check because
   context.skipIsHomepageHook is set leaves the number of documents with
   isHomepage = true unchanged or lower *)
BypassNeverAddsHomepage ==
  [][\A w \in BagToSet(pending) :
       (IsCommitStep(w) /\ Bypassed(w))
         => Cardinality(Homepages(docs')) <= Cardinality(Homepages(docs))]_vars

(* C22, amended: the hook passes a write that carries the bypass flag with
   its data unchecked, whatever they are.  The bypassed write the plugin
   issues, that of unsetHomepage, sets isHomepage = false, and every
   bypassed write whose data do not set isHomepage = true leaves the number
   of documents with isHomepage = true unchanged or lower *)
PluginBypassNeverAddsHomepage ==
  [][/\ (IsHookStep /\ Bypassed(hook'))
          => /\ hook'.outcome = "return"
             /\ hook'.queries = 0
             /\ Proceeds(hook')
             /\ hook'.via = "unsetHomepage" => hook'.data = [isHomepage |-> FALSE]
     /\ \A w \in BagToSet(pending) :
          (IsCommitStep(w) /\ Bypassed(w)
             /\ (w.via = "unsetHomepage" \/ ~IsTrue(w.data, "isHomepage")))
            => Cardinality(Homepages(docs')) <= Cardinality(Homepages(docs))]_vars

\* unsetHomepage was committed on the page that was the only homepage
PluginBypassNeverAddsHomepageWitness ==
  /\ hook.via = "unsetHomepage"
  /\ Bypassed(hook)
  /\ pending = EmptyBag
  /\ Homepages(docs) = {}
  /\ hook.id \in DOMAIN docs
  /\ Has(docs[hook.id], "title")
  /\ docs[hook.id].title = "Home"
  /\ Has(docs[hook.id], "isHomepage")
  /\ docs[hook.id].isHomepage = FALSE

-----------------------------------------------------------------------------
(* The history panel: restore, laziness, props *)

\* this step is the answer to the restore request f of handleRestore
RestoreAnswered(f) ==
  /\ f.purpose = "restore"
  /\ BagIn(f, fetches)
  /\ answer'.purpose = "restore"
  /\ CopiesIn(f, fetches') < CopiesIn(f, fetches)

(* C23 as stated: after an ok response to a confirmed restore, onRestore is
   called once with the restored version, then the panel closes, then the
   page reloads; after a response that is not ok, or a failed request,
   onRestore is not called, nothing reloads and the panel shows an inline
   error string *)
RestoreOutcome ==
  [][\A f \in BagToSet(fetches) :
       RestoreAnswered(f)
         => IF answer'.response # Undefined /\ Ok(answer'.response[1])
              THEN /\ effects' = RestoredEffects(f.body[1].versionId)
                   /\ ~panel'.isOpen
              ELSE /\ effects' = <<>>
                   /\ panel'.error # Undefined
                   /\ View(panel') = "error"]_vars

(* C24 as stated: the restore handler calls the host's restoreVersion only
   with the id of a version that belongs to the document named in the route *)
RestoresOnlyOwnVersions ==
  Served("restore")
    => \A i \in DOMAIN calls :
         calls[i].op = "restoreVersion"
           => \E v \in versions : v.id = calls[i].id /\ v.parent = req.id

\* the requests of purpose p that this step adds to those in flight
Issued(p) ==
  {f \in BagToSet(fetches') : f.purpose = p /\ CopiesIn(f, fetches') > CopiesIn(f, fetches)}

\* this step changes the page of the panel: its apiEndpoint or its pageId
PageChanges == PageOf(props') # PageOf(props)

\* this step ends a restore with the reload of the page: the panel is
\* mounted anew
Reloads ==
  \E f \in BagToSet(fetches) :
    RestoreAnswered(f) /\ effects' = RestoredEffects(f.body[1].versionId)

(* C25 as stated: a list request is issued only when the panel goes from
   closed to open or when its page changes while it is open, never while
   the panel is closed; a closed panel issues no request at all, its only
   request being the probe of its mount *)
ListOnlyWhenOpen ==
  [][/\ Issued("list") # {}
          => /\ panel'.isOpen
             /\ (~panel.isOpen /\ ~PageChanges) \/ (panel.isOpen /\ PageChanges)
     /\ (~panel.isOpen /\ ~panel'.isOpen /\ ~Reloads)
          => Issued("probe") \cup Issued("list") \cup Issued("restore") = {}]_vars

(* C25, amended: a list request (limit 20) is issued only when the panel
   goes from closed to open or when its page changes while it is open, and
   it is a request for the current page; a step that leaves the panel closed
   issues no list and no restore request.  The requests of a closed panel
   are availability probes only: the one of its mount and one more at every
   change of pageId or apiEndpoint *)
ListOnlyWhenOpenProbeOnChange ==
  [][/\ Issued("list") # {}
          => /\ panel'.isOpen
             /\ (~panel.isOpen /\ ~PageChanges) \/ (panel.isOpen /\ PageChanges)
             /\ Issued("list") = {FetchVersionsFetch(props')}
             /\ FetchVersionsFetch(props').limit = Some(VersionsLimit)
     /\ (~panel.isOpen /\ ~panel'.isOpen /\ ~Reloads)
          => /\ Issued("list") \cup Issued("restore") = {}
             /\ Issued("probe") = IF PageChanges THEN {CheckAvailabilityFetch(props')}
                                  ELSE {}]_vars

\* the page changed under the open panel: the list of the new page is
\* requested while the panel still holds the list of the other page
ListOnlyWhenOpenProbeOnChangeWitness ==
  /\ panel.isOpen
  /\ panel.isLoading
  /\ BagIn(FetchVersionsFetch(props), fetches)
  /\ BagIn(CheckAvailabilityFetch(props), fetches)
  /\ origin.versions # Undefined
  /\ origin.versions[1] # PageOf(props)
  /\ Len(panel.versions) > 0

(* C26 as stated: while the disabled prop of the panel is true, no restore
   request is issued from it, whatever its state *)
DisabledNeverRestores ==
  [][props.disabled => Issued("restore") = {}]_vars

\* this step is the answer to request f of the panel
Answered(f) ==
  /\ BagIn(f, fetches)
  /\ answer'.purpose = f.purpose
  /\ CopiesIn(f, fetches') < CopiesIn(f, fetches)

(* C27 as stated: the answer to a request made for another page than the
   current one never overwrites the isAvailable or the version list that
   the panel obtained for its current page *)
StateOfCurrentPage ==
  [][\A f \in BagToSet(fetches) :
       (Answered(f) /\ PageOf(f) # PageOf(props))
         => /\ origin.isAvailable = Some(PageOf(props))
                 => /\ origin'.isAvailable = origin.isAvailable
                    /\ panel'.isAvailable = panel.isAvailable
            /\ origin.versions = Some(PageOf(props))
                 => /\ origin'.versions = origin.versions
                    /\ panel'.versions = panel.versions]_vars

-----------------------------------------------------------------------------
(* The compilation of the CSS at build time *)

(* C29 as stated: in one build under withPuckCSS the CSS is compiled at most
   once and written at most once, however often beforeCompile fires and
   however many compilers the webpack function is called for; with skipInDev
   in development it is neither compiled nor written *)
CompiledOncePerBuild ==
  /\ compilations <= 1
  /\ written <= 1
  /\ SkipsInDev(build) => compilations = 0 /\ written = 0

-----------------------------------------------------------------------------
(* The style element of dark mode *)

\* the mounted instances whose last render had shouldInject = true
Injecting == {i \in 1..MaxInstances : instances[i].mounted /\ instances[i].shouldInject}

(* C30 as stated: after every effect run the document holds at most one
   style element with id STYLE_ID, it holds one exactly when some mounted
   instance has shouldInject = true, and none when no instance is mounted *)
OneStyleElementWhenInjecting ==
  /\ styleElements <= 1
  /\ styleElements = 1 <=> Injecting # {}
  /\ (\A i \in 1..MaxInstances : ~instances[i].mounted) => styleElements = 0

====
